---- MODULE Spec2Model ----
(***************************************************************************)
(* Model of the exam ingestion / transcoding / grading core of MS-JULI.    *)
(*                                                                         *)
(* Strings are sequences of one-character atoms.  The circled numerals     *)
(* U+2460..U+2469 are written "c1".."c10", and the Hangul syllable used as *)
(* an example of a non-Latin letter is written "ga".                       *)
(***************************************************************************)
EXTENDS Integers, Sequences, FiniteSets, TLC

VARIABLES
  pc,         \* position of the caller: which call comes next
  exam,       \* ExamData | Null : the canonical exam at hand
  editable,   \* EditableExam | Null : the editable mirror at hand
  issues,     \* ParseIssue[] returned by the last producer
  prevExam,   \* the canonical exam that the last toEditableExam consumed
  arg,        \* arguments of the function being called
  ret,        \* value it returned
  app,        \* the state of the App component (<<>> where no App is mounted)
  storage     \* the localStorage item of the app: absent (<<>>) or <<StoredState>>

vars == <<pc, exam, editable, issues, prevExam, arg, ret, app, storage>>


(***************************************************************************)
(* Bounds of the model.                                                    *)
(***************************************************************************)
MaxQuestions == 3
MaxRounds == 2
MaxUserList == 3
MaxChoices == 2
MaxRawLen == 3
MaxLines == 3
MaxCanonical == 1
MaxGradeQuestions == 3
MaxShortLen == 4
MaxLoopLines == 3

(***************************************************************************)
(* Characters.                                                             *)
(***************************************************************************)
DigitChars == <<"0", "1", "2", "3", "4", "5", "6", "7", "8", "9">>
UpperChars == <<"A", "B", "C", "D", "E", "F", "G", "H", "I", "J", "K", "L", "M",
                "N", "O", "P", "Q", "R", "S", "T", "U", "V", "W", "X", "Y", "Z">>
LowerChars == <<"a", "b", "c", "d", "e", "f", "g", "h", "i", "j", "k", "l", "m",
                "n", "o", "p", "q", "r", "s", "t", "u", "v", "w", "x", "y", "z">>
CIRCLED_NUMBERS == <<"c1", "c2", "c3", "c4", "c5", "c6", "c7", "c8", "c9", "c10">>

IsDigit(c) == \E i \in 1..10 : DigitChars[i] = c
DigitVal(c) == (CHOOSE i \in 1..10 : DigitChars[i] = c) - 1
IsUpper(c) == \E i \in 1..26 : UpperChars[i] = c
IsLower(c) == \E i \in 1..26 : LowerChars[i] = c
IsLetter(c) == IsUpper(c) \/ IsLower(c)
IsCircled(c) == \E i \in 1..10 : CIRCLED_NUMBERS[i] = c
CircledIndex(c) == (CHOOSE i \in 1..10 : CIRCLED_NUMBERS[i] = c) - 1
ToLowerChar(c) == IF IsUpper(c) THEN LowerChars[CHOOSE i \in 1..26 : UpperChars[i] = c] ELSE c
ToUpperChar(c) == IF IsLower(c) THEN UpperChars[CHOOSE i \in 1..26 : LowerChars[i] = c] ELSE c
\* charCodeAt(0) - 65 of an upper-case Latin letter
LetterIndex(c) == (CHOOSE i \in 1..26 : UpperChars[i] = ToUpperChar(c)) - 1
IsWS(c) == c \in {" ", "\t", "\n", "\r"}
IsAlnum(c) == IsLetter(c) \/ IsDigit(c)

(***************************************************************************)
(* String and array primitives of the platform.                            *)
(***************************************************************************)
ToLowerCase(s) == [i \in 1..Len(s) |-> ToLowerChar(s[i])]
ToUpperCase(s) == [i \in 1..Len(s) |-> ToUpperChar(s[i])]

RECURSIVE TrimStart(_)
TrimStart(s) == IF s # <<>> /\ IsWS(Head(s)) THEN TrimStart(Tail(s)) ELSE s

RECURSIVE TrimEnd(_)
TrimEnd(s) ==
  IF s # <<>> /\ IsWS(s[Len(s)]) THEN TrimEnd(SubSeq(s, 1, Len(s) - 1)) ELSE s

Trim(s) == TrimEnd(TrimStart(s))

\* s.replace(/\s+/g, " ")
\* (every character that is not white space and the first of every run of
\* white space are kept, the latter as one blank)
CollapseWS(s) ==
  LET kept == SelectSeq([i \in 1..Len(s) |-> i],
                        LAMBDA i : ~IsWS(s[i]) \/ i = 1 \/ ~IsWS(s[i - 1]))
  IN [k \in 1..Len(kept) |-> IF IsWS(s[kept[k]]) THEN " " ELSE s[kept[k]]]

\* s.replace(/\s/g, "")
RemoveWS(s) == SelectSeq(s, LAMBDA c : ~IsWS(c))

\* the k-th smallest member of a set of numbers
NthOf(S, k) == CHOOSE i \in S : Cardinality({j \in S : j <= i}) = k

\* s.split(/[D]+/): the pieces between maximal runs of characters of D
SplitRuns(s, D) ==
  LET starts == {i \in 1..Len(s) : s[i] \in D /\ (i = 1 \/ s[i - 1] \notin D)}
      ends == {i \in 1..Len(s) : s[i] \in D /\ (i = Len(s) \/ s[i + 1] \notin D)}
      From(k) == IF k = 1 THEN 1 ELSE NthOf(ends, k - 1) + 1
      To(k) == IF k > Cardinality(starts) THEN Len(s) ELSE NthOf(starts, k) - 1
  IN [k \in 1..(Cardinality(starts) + 1) |-> SubSeq(s, From(k), To(k))]

\* s.split(/\r?\n/): every line feed separates, a carriage return before it is dropped
SplitLines(s) ==
  LET feeds == {i \in 1..Len(s) : s[i] = "\n"}
      From(k) == IF k = 1 THEN 1 ELSE NthOf(feeds, k - 1) + 1
      To(k) == IF k > Cardinality(feeds) THEN Len(s)
               ELSE IF NthOf(feeds, k) > From(k) /\ s[NthOf(feeds, k) - 1] = "\r"
                    THEN NthOf(feeds, k) - 2
                    ELSE NthOf(feeds, k) - 1
  IN [k \in 1..(Cardinality(feeds) + 1) |-> SubSeq(s, From(k), To(k))]

\* array.join(sep)
RECURSIVE Join(_, _)
Join(parts, sep) ==
  IF parts = <<>> THEN <<>>
  ELSE IF Len(parts) = 1 THEN parts[1]
       ELSE parts[1] \o sep \o Join(Tail(parts), sep)

\* the array that a map call returns: its elements are computed when the call
\* returns, not when they are read
ArrayOf(elements) == SubSeq(elements, 1, Len(elements))

\* array.filter(Boolean) on an array of strings
NonEmpty(parts) == SelectSeq(parts, LAMBDA p : p # <<>>)

\* Array.from(new Set(xs)): first occurrences, in insertion order
RECURSIVE Dedupe(_)
Dedupe(xs) ==
  IF xs = <<>> THEN <<>>
  ELSE LET init == Dedupe(SubSeq(xs, 1, Len(xs) - 1))
           last == xs[Len(xs)]
       IN IF \E i \in 1..Len(init) : init[i] = last THEN init ELSE Append(init, last)

\* array.findIndex(p), 0-based, -1 when absent
FindIndex(xs, P(_)) ==
  IF \E i \in 1..Len(xs) : P(xs[i])
  THEN (CHOOSE i \in 1..Len(xs) : P(xs[i]) /\ \A j \in 1..(i - 1) : ~P(xs[j])) - 1
  ELSE -1

\* Number(digits) for a run of decimal digits
RECURSIVE DigitsToNat(_)
DigitsToNat(ds) ==
  IF ds = <<>> THEN 0
  ELSE 10 * DigitsToNat(SubSeq(ds, 1, Len(ds) - 1)) + DigitVal(ds[Len(ds)])

\* String(n) for a natural number
RECURSIVE NatToString(_)
NatToString(n) ==
  IF n < 10 THEN <<DigitChars[n + 1]>>
  ELSE NatToString(n \div 10) \o <<DigitChars[(n % 10) + 1]>>

\* token.match(/\d+/): the first maximal run of digits, <<>> when there is none
FirstDigitRun(s) ==
  IF \E i \in 1..Len(s) : IsDigit(s[i])
  THEN LET first == CHOOSE i \in 1..Len(s) : IsDigit(s[i]) /\ \A j \in 1..(i - 1) : ~IsDigit(s[j])
           last == CHOOSE k \in first..Len(s) :
                     /\ \A j \in first..k : IsDigit(s[j])
                     /\ (k = Len(s) \/ ~IsDigit(s[k + 1]))
       IN SubSeq(s, first, last)
  ELSE <<>>

(***************************************************************************)
(* utils.ts                                                                *)
(***************************************************************************)
\* a slip: the letter case is kept
normalizeShortAnswerKeepsCase(value) == CollapseWS(Trim(value))

normalizeShortAnswer(value) == ToLowerCase(CollapseWS(Trim(value)))

normalizeChoiceToken(token) == CollapseWS(Trim(token))

BracketChars == {"(", ")", "[", "]", "{", "}"}
BulletChars == {"mid", "bul"}   \* U+00B7 middle dot, U+2022 bullet
TokenDelims == {" ", "\t", "\n", "\r", ",", "/", "|", ";"}

\* raw.replace(/[()\[\]{}]/g," ").replace(/[..]/g," ").replace(/\s+/g," ").trim()
CleanAnswer(raw) ==
  Trim(CollapseWS([i \in 1..Len(raw) |->
        IF raw[i] \in BracketChars \cup BulletChars THEN " " ELSE raw[i]]))

\* token.replace(/[.)]$/, "")
StripTokenTail(token) ==
  IF token # <<>> /\ token[Len(token)] \in {".", ")"}
  THEN SubSeq(token, 1, Len(token) - 1) ELSE token

ChoiceIndexOf(text, choices) ==
  FindIndex(choices,
    LAMBDA choice : ToLowerCase(normalizeChoiceToken(choice)) = ToLowerCase(normalizeChoiceToken(text)))

\* CIRCLED_NUMBERS is a plain object: besides its ten own keys, the lookup
\* CIRCLED_NUMBERS[token] finds what every object inherits from
\* Object.prototype, and that is !== undefined too
INHERITED_KEYS ==
  {<<"c", "o", "n", "s", "t", "r", "u", "c", "t", "o", "r">>,
   <<"t", "o", "S", "t", "r", "i", "n", "g">>,
   <<"v", "a", "l", "u", "e", "O", "f">>,
   <<"t", "o", "L", "o", "c", "a", "l", "e", "S", "t", "r", "i", "n", "g">>,
   <<"h", "a", "s", "O", "w", "n", "P", "r", "o", "p", "e", "r", "t", "y">>,
   <<"i", "s", "P", "r", "o", "t", "o", "t", "y", "p", "e", "O", "f">>,
   <<"p", "r", "o", "p", "e", "r", "t", "y", "I", "s", "E", "n", "u", "m", "e", "r", "a", "b", "l", "e">>,
   <<"_", "_", "p", "r", "o", "t", "o", "_", "_">>,
   <<"_", "_", "d", "e", "f", "i", "n", "e", "G", "e", "t", "t", "e", "r", "_", "_">>,
   <<"_", "_", "d", "e", "f", "i", "n", "e", "S", "e", "t", "t", "e", "r", "_", "_">>,
   <<"_", "_", "l", "o", "o", "k", "u", "p", "G", "e", "t", "t", "e", "r", "_", "_">>,
   <<"_", "_", "l", "o", "o", "k", "u", "p", "S", "e", "t", "t", "e", "r", "_", "_">>}

\* what the loop pushes for an inherited key: a function or an object, which
\* is not a number and fails the final value >= 0 like a negative number
NotANumber == -1

\* one iteration of the token loop: the indices the token pushes (none or one)
TokenPositiveNumber(nt) ==
  FirstDigitRun(nt) # <<>> /\ DigitsToNat(FirstDigitRun(nt)) > 0

TokenIndices(token, choices) ==
  LET nt == StripTokenTail(token) IN
  IF Len(nt) = 1 /\ IsCircled(nt[1]) THEN <<CircledIndex(nt[1])>>
  ELSE IF nt \in INHERITED_KEYS THEN <<NotANumber>>
  ELSE IF TokenPositiveNumber(nt) THEN <<DigitsToNat(FirstDigitRun(nt)) - 1>>
  ELSE IF Len(nt) = 1 /\ IsLetter(nt[1]) THEN <<LetterIndex(nt[1])>>
  ELSE IF ChoiceIndexOf(nt, choices) >= 0 THEN <<ChoiceIndexOf(nt, choices)>>
  ELSE <<>>

RECURSIVE AllTokenIndices(_, _)
AllTokenIndices(tokens, choices) ==
  IF tokens = <<>> THEN <<>>
  ELSE TokenIndices(Head(tokens), choices) \o AllTokenIndices(Tail(tokens), choices)

AnswerTokens(cleaned) == NonEmpty(SplitRuns(cleaned, TokenDelims))

\* a slip: the whole-string match after the token loop is left out
extractIndicesTokensOnly(raw, choices) ==
  LET cleaned == CleanAnswer(raw) IN
  IF cleaned = <<>> THEN <<>>
  ELSE SelectSeq(Dedupe(AllTokenIndices(AnswerTokens(cleaned), choices)),
                 LAMBDA value : value >= 0)

extractIndicesFromText(raw, choices) ==
  LET cleaned == CleanAnswer(raw) IN
  IF cleaned = <<>> THEN <<>>
  ELSE LET perToken == AllTokenIndices(AnswerTokens(cleaned), choices)
           indices == IF perToken # <<>> THEN perToken
                      ELSE IF ChoiceIndexOf(cleaned, choices) >= 0
                           THEN <<ChoiceIndexOf(cleaned, choices)>>
                           ELSE <<>>
       IN SelectSeq(Dedupe(indices), LAMBDA value : value >= 0)

\* parseOxAnswer's accepted words; "ye" is U+C608, "ah","ni","oh" are U+C544 U+B2C8 U+C624
OX_TRUE_WORDS == {<<"o">>, <<"t", "r", "u", "e">>, <<"t">>, <<"ye">>}
OX_FALSE_WORDS == {<<"x">>, <<"f", "a", "l", "s", "e">>, <<"f">>, <<"ah", "ni", "oh">>}

isOxAnswer(value) == ToLowerCase(Trim(value)) \in OX_TRUE_WORDS \cup OX_FALSE_WORDS

\* number | null, as a list of at most one number
parseOxAnswer(value) ==
  IF ToLowerCase(Trim(value)) \in OX_TRUE_WORDS THEN <<0>>
  ELSE IF ToLowerCase(Trim(value)) \in OX_FALSE_WORDS THEN <<1>>
  ELSE <<>>

(***************************************************************************)
(* types.ts: optional fields.  A string that may be undefined is either a  *)
(* character sequence or NoStr; an optional array is Absent or Present(v); *)
(* Question.answer is undefined, a number or an array of numbers.          *)
(***************************************************************************)
NoStr == <<"undefined">>
Absent == [present |-> FALSE, v |-> <<>>]
Present(v) == [present |-> TRUE, v |-> v]
NoAnswer == [kind |-> "undefined", v |-> <<>>]
NumAnswer(n) == [kind |-> "number", v |-> <<n>>]
ArrAnswer(ns) == [kind |-> "array", v |-> ns]
\* indices[0] of a possibly empty array
FirstAnswer(ns) == IF ns = <<>> THEN NoAnswer ELSE NumAnswer(ns[1])

Question(id, type, prompt, choices, choiceLabels, answer, answerText, explanation) ==
  [id |-> id, type |-> type, prompt |-> prompt, choices |-> choices,
   choiceLabels |-> choiceLabels, answer |-> answer, answerText |-> answerText,
   explanation |-> explanation]

Issue(level, message, questionId) ==
  [level |-> level, message |-> message, questionId |-> questionId]

\* question.choiceLabels?.[index] ?? String(index + 1)
LabelOrNumber(question, index) ==
  IF /\ question.choiceLabels.present
     /\ index + 1 \in 1..Len(question.choiceLabels.v)
     /\ question.choiceLabels.v[index + 1] # NoStr
  THEN question.choiceLabels.v[index + 1]
  ELSE NatToString(index + 1)

formatChoiceLabel(question, index) ==
  LET rawLabel == LabelOrNumber(question, index) IN
  IF question.type = "ox" THEN rawLabel
  ELSE IF Len(rawLabel) = 1 /\ IsCircled(rawLabel[1]) THEN rawLabel
  ELSE IF rawLabel # <<>> /\ \A i \in 1..Len(rawLabel) : IsAlnum(rawLabel[i])
       THEN rawLabel \o <<".">>
  ELSE rawLabel

(***************************************************************************)
(* parser.ts: choice-line grammar                                          *)
(***************************************************************************)
NoLineTerminator(s) == \A i \in 1..Len(s) : s[i] \notin {"\n", "\r"}

\* the tail "\s*(.+)$" of the four patterns, applied to what follows the marker:
\* the captured text, or <<>> when the tail does not match
ChoiceBody(rest) ==
  LET body == TrimStart(rest) IN
  IF body # <<>> /\ NoLineTerminator(body) THEN body ELSE <<>>

\* length of the run of digits at the start of the line
RECURSIVE LeadingDigits(_)
LeadingDigits(s) ==
  IF s # <<>> /\ IsDigit(Head(s)) THEN 1 + LeadingDigits(Tail(s)) ELSE 0

\* "\s*[\)\.]\s*(.+)$" applied to what follows the number or letter
MarkedBody(rest) ==
  LET afterWs == TrimStart(rest) IN
  IF afterWs # <<>> /\ Head(afterWs) \in {")", "."} THEN ChoiceBody(Tail(afterWs)) ELSE <<>>

NoToken == [matched |-> FALSE, label |-> NoStr, text |-> <<>>]
ChoiceToken(label, text) == [matched |-> TRUE, label |-> label, text |-> text]

parseChoiceLine(line) ==
  IF line # <<>> /\ IsCircled(line[1]) /\ ChoiceBody(Tail(line)) # <<>>
  THEN ChoiceToken(<<line[1]>>, Trim(ChoiceBody(Tail(line))))
  ELSE IF LeadingDigits(line) > 0
          /\ MarkedBody(SubSeq(line, LeadingDigits(line) + 1, Len(line))) # <<>>
  THEN ChoiceToken(SubSeq(line, 1, LeadingDigits(line)),
                   Trim(MarkedBody(SubSeq(line, LeadingDigits(line) + 1, Len(line)))))
  ELSE IF line # <<>> /\ IsLetter(line[1]) /\ MarkedBody(Tail(line)) # <<>>
  THEN ChoiceToken(<<ToUpperChar(line[1])>>, Trim(MarkedBody(Tail(line))))
  ELSE IF line # <<>> /\ line[1] \in {"-", "bul"} /\ ChoiceBody(Tail(line)) # <<>>
  THEN ChoiceToken(NoStr, Trim(ChoiceBody(Tail(line))))
  ELSE NoToken

(***************************************************************************)
(* parser.ts: short answers, unique ids                                    *)
(***************************************************************************)
ShortDelims == {"|", ",", ";", "/"}

MapTrim(parts) == [i \in 1..Len(parts) |-> Trim(parts[i])]

\* a slip: the whole answer is not kept next to its parts
splitShortAnswerTokensPartsOnly(raw) ==
  LET trimmed == Trim(raw)
      tokens == NonEmpty(MapTrim(SplitRuns(trimmed, ShortDelims)))
  IN IF trimmed = <<>> THEN <<>>
     ELSE IF Len(tokens) <= 1 THEN tokens
     ELSE Dedupe(tokens)

splitShortAnswerTokens(raw) ==
  LET trimmed == Trim(raw)
      tokens == NonEmpty(MapTrim(SplitRuns(trimmed, ShortDelims)))
  IN IF trimmed = <<>> THEN <<>>
     ELSE IF Len(tokens) <= 1 THEN tokens
     ELSE Dedupe(Append(tokens, trimmed))

\* seen.get(base) ?? 0 when the question at position i is visited
SeenCount(questions, i) ==
  Cardinality({j \in 1..(i - 1) : questions[j].id = questions[i].id})

\* a slip: the suffix counts the earlier occurrences instead of this one
UniqueIdCountsEarlier(base, count) ==
  IF count = 0 THEN base ELSE base \o <<"-">> \o NatToString(count)

UniqueId(base, count) ==
  IF count = 0 THEN base ELSE base \o <<"-">> \o NatToString(count + 1)

ensureUniqueIds(questions) ==
  ArrayOf([i \in 1..Len(questions) |->
     [questions[i] EXCEPT !.id = UniqueId(questions[i].id, SeenCount(questions, i))]])

(***************************************************************************)
(* parser.ts: the transcoder                                               *)
(***************************************************************************)
\* label?.trim() of a captured label, then "label || undefined"
LabelOrUndefined(label) == IF label = NoStr \/ Trim(label) = <<>> THEN NoStr ELSE Trim(label)

ChoiceLines(choicesText) == NonEmpty(MapTrim(SplitLines(choicesText)))

parseChoicesFromText(choicesText) ==
  LET lines == ChoiceLines(choicesText)
      choices == [i \in 1..Len(lines) |->
                    IF parseChoiceLine(lines[i]).matched
                    THEN normalizeChoiceToken(parseChoiceLine(lines[i]).text)
                    ELSE normalizeChoiceToken(lines[i])]
      labels == [i \in 1..Len(lines) |-> LabelOrUndefined(parseChoiceLine(lines[i]).label)]
      hasLabels == \E i \in 1..Len(lines) : labels[i] # NoStr
  IN [choices |-> choices, labels |-> IF hasLabels THEN Present(labels) ELSE Absent]

\* "explanation || undefined"
OrUndefined(s) == IF s = <<>> THEN NoStr ELSE s

\* item.id.trim() || `Q${index + 1}`
EditableId(item, index) ==
  IF Trim(item.id) # <<>> THEN Trim(item.id) ELSE <<"Q">> \o NatToString(index + 1)

EditableOxAnswer(answerRaw) ==
  LET parsed == IF parseOxAnswer(answerRaw) # <<>> THEN parseOxAnswer(answerRaw)
                ELSE parseOxAnswer(RemoveWS(answerRaw))
  IN IF parsed # <<>> THEN NumAnswer(parsed[1])
     ELSE IF \E i \in 1..Len(answerRaw) : IsDigit(answerRaw[i])
          THEN FirstAnswer(extractIndicesFromText(answerRaw, <<<<"O">>, <<"X">>>>))
          ELSE NoAnswer

OxChoices == Present(<<<<"O">>, <<"X">>>>)

EditableQuestionToQuestion(item, index) ==
  LET id == EditableId(item, index)
      prompt == Trim(item.prompt)
      explanation == OrUndefined(Trim(item.explanation))
      parsed == parseChoicesFromText(item.choicesText)
      answerRaw == Trim(item.answerText)
      indices == extractIndicesFromText(answerRaw, parsed.choices)
  IN IF item.type = "short"
     THEN Question(id, "short", prompt, Absent, Absent, NoAnswer,
                   Present(splitShortAnswerTokens(answerRaw)), explanation)
     ELSE IF item.type = "ox"
     THEN Question(id, "ox", prompt, OxChoices, OxChoices,
                   EditableOxAnswer(answerRaw), Absent, explanation)
     ELSE IF item.type = "multi"
     THEN Question(id, "multi", prompt, Present(parsed.choices), parsed.labels,
                   ArrAnswer(indices), Absent, explanation)
     ELSE Question(id, "single", prompt, Present(parsed.choices), parsed.labels,
                   FirstAnswer(indices), Absent, explanation)

\* the warn issues editableToExam pushes for one question, in push order
\* (id and q are the id and the question built for the item)
EditableQuestionIssues(item, id, q) ==
     (IF Trim(item.prompt) = <<>> THEN <<Issue("warn", "prompt-empty", id)>> ELSE <<>>)
     \o (IF item.type = "short"
         THEN (IF q.answerText.v = <<>> THEN <<Issue("warn", "answer-empty", id)>> ELSE <<>>)
         ELSE IF item.type = "ox"
         THEN (IF q.answer.kind = "undefined" THEN <<Issue("warn", "check-ox-answer", id)>> ELSE <<>>)
         ELSE (IF q.choices.v = <<>> THEN <<Issue("warn", "no-choices", id)>> ELSE <<>>)
              \o (IF item.type = "multi"
                  THEN (IF q.answer.v = <<>> THEN <<Issue("warn", "check-multi-answer", id)>> ELSE <<>>)
                  ELSE (IF q.answer.kind = "undefined" THEN <<Issue("warn", "check-answer", id)>> ELSE <<>>)))

RECURSIVE Flatten(_)
Flatten(lists) == IF lists = <<>> THEN <<>> ELSE Head(lists) \o Flatten(Tail(lists))

DEFAULT_TITLE == <<"untitled">>   \* the fixed default title string

editableToExam(ed) ==
  [exam |-> [title |-> IF Trim(ed.title) # <<>> THEN Trim(ed.title) ELSE DEFAULT_TITLE,
             questions |-> ensureUniqueIds(ArrayOf(
                [i \in 1..Len(ed.questions) |-> EditableQuestionToQuestion(ed.questions[i], i - 1)]))],
   issues |-> Flatten([i \in 1..Len(ed.questions) |->
                        EditableQuestionIssues(ed.questions[i], EditableId(ed.questions[i], i - 1),
                                               EditableQuestionToQuestion(ed.questions[i], i - 1))])]

formatChoiceLabelForEditor(label) ==
  IF label = NoStr \/ label = <<>> THEN <<>>
  ELSE IF label[Len(label)] \in {".", ")"} THEN label
  ELSE IF Len(label) = 1 /\ IsCircled(label[1]) THEN label
  ELSE IF Len(label) = 1 /\ label[1] \in {"O", "X", "o", "x"} THEN ToUpperCase(label)
  ELSE IF \A i \in 1..Len(label) : IsAlnum(label[i]) THEN label \o <<".">>
  ELSE label

\* labels[index] of "question.choiceLabels ?? []"
LabelAt(question, index) ==
  IF question.choiceLabels.present /\ index + 1 \in 1..Len(question.choiceLabels.v)
  THEN question.choiceLabels.v[index + 1] ELSE NoStr

formatChoicesForEditor(question) ==
  Join([i \in 1..Len(question.choices.v) |->
          IF formatChoiceLabelForEditor(LabelAt(question, i - 1)) # <<>>
          THEN formatChoiceLabelForEditor(LabelAt(question, i - 1)) \o <<" ">> \o question.choices.v[i]
          ELSE question.choices.v[i]],
       <<"\n">>)

formatAnswerForEditor(question) ==
  IF question.type = "short"
  THEN Join(question.answerText.v, <<" ", "|", " ">>)
  ELSE IF question.type = "multi"
  THEN IF question.answer.kind = "array"
       THEN Join([i \in 1..Len(question.answer.v) |-> LabelOrNumber(question, question.answer.v[i])],
                 <<",", " ">>)
       ELSE <<>>
  ELSE IF question.type = "ox"
  THEN IF question.answer.kind = "number"
       THEN (IF question.answer.v[1] = 0 THEN <<"O">> ELSE <<"X">>)
       ELSE <<>>
  ELSE IF question.answer.kind = "number"
       THEN LabelOrNumber(question, question.answer.v[1])
       ELSE <<>>

EditableQuestion(id, type, prompt, choicesText, answerText, explanation) ==
  [id |-> id, type |-> type, prompt |-> prompt, choicesText |-> choicesText,
   answerText |-> answerText, explanation |-> explanation]

toEditableExam(x) ==
  [title |-> x.title,
   questions |-> ArrayOf([i \in 1..Len(x.questions) |->
      EditableQuestion(x.questions[i].id, x.questions[i].type, x.questions[i].prompt,
                       formatChoicesForEditor(x.questions[i]),
                       formatAnswerForEditor(x.questions[i]),
                       IF x.questions[i].explanation = NoStr THEN <<>>
                       ELSE x.questions[i].explanation)])]

(***************************************************************************)
(* utils.ts: formatChoiceAnswer;  grading.ts                               *)
(* A UserAnswer is null, a number, an array of numbers (field v) or a      *)
(* string (field s).                                                       *)
(***************************************************************************)
NullAnswer == [kind |-> "null", v |-> <<>>, s |-> <<>>]
UserNumber(n) == [kind |-> "number", v |-> <<n>>, s |-> <<>>]
UserArray(ns) == [kind |-> "array", v |-> ns, s |-> <<>>]
UserString(str) == [kind |-> "string", v |-> <<>>, s |-> str]

UNANSWERED_LABEL == <<"unanswered">>   \* the fixed "not answered" text
NO_ANSWER_LABEL == <<"(none)">>        \* the fixed "no correct answer" text

\* `${label} ${choiceText}` or the label alone, for one index
ChoiceAnswerPart(question, index) ==
  LET label == formatChoiceLabel(question, index)
      hasText == index + 1 \in 1..Len(question.choices.v) /\ question.choices.v[index + 1] # <<>>
  IN IF ~hasText \/ question.choices.v[index + 1] = label THEN label
     ELSE label \o <<" ">> \o question.choices.v[index + 1]

\* answer is null/undefined (kind "null" or "undefined"), a number or an array
formatChoiceAnswer(question, answer) ==
  IF answer.kind \in {"null", "undefined"} THEN UNANSWERED_LABEL
  ELSE Join([i \in 1..Len(answer.v) |-> ChoiceAnswerPart(question, answer.v[i])], <<",", " ">>)

\* a slip: "answer !== undefined" instead of "typeof answer === 'number'"
isAnsweredNullCounts(question, answer) ==
  IF question.type = "short"
  THEN answer.kind = "string" /\ Len(normalizeShortAnswer(answer.s)) > 0
  ELSE IF question.type = "multi"
  THEN answer.kind = "array" /\ Len(answer.v) > 0
  ELSE answer.kind # "undefined"

isAnswered(question, answer) ==
  IF question.type = "short"
  THEN answer.kind = "string" /\ Len(normalizeShortAnswer(answer.s)) > 0
  ELSE IF question.type = "multi"
  THEN answer.kind = "array" /\ Len(answer.v) > 0
  ELSE answer.kind = "number"

\* xs.sort((a, b) => a - b)
RECURSIVE SortAscending(_)
SortAscending(xs) ==
  IF xs = <<>> THEN <<>>
  ELSE LET least == CHOOSE i \in 1..Len(xs) :
                      /\ \A j \in 1..Len(xs) : xs[i] <= xs[j]
                      /\ \A j \in 1..(i - 1) : xs[j] # xs[i]
       IN <<xs[least]>> \o
          SortAscending(SubSeq(xs, 1, least - 1) \o SubSeq(xs, least + 1, Len(xs)))

\* a slip: sorted without going through a Set
SortedWithRepeats(xs) == SortAscending(xs)

SortedSet(xs) == SortAscending(Dedupe(xs))

\* userSet.length === correctSet.length && userSet.every((v, idx) => v === correctSet[idx])
SameSortedSets(userSet, correctSet) ==
  /\ Len(userSet) = Len(correctSet)
  /\ \A idx \in 1..Len(userSet) : userSet[idx] = correctSet[idx]

isCorrectAnswer(question, answer) ==
  IF question.type = "short"
  THEN /\ answer.kind = "string"
       /\ \E i \in 1..Len(question.answerText.v) :
            normalizeShortAnswer(question.answerText.v[i]) = normalizeShortAnswer(answer.s)
  ELSE IF question.type = "multi"
  THEN /\ answer.kind = "array" /\ question.answer.kind = "array"
       /\ SameSortedSets(SortedSet(answer.v), SortedSet(question.answer.v))
  ELSE /\ answer.kind = "number" /\ question.answer.kind = "number"
       /\ answer.v[1] = question.answer.v[1]

formatUserAnswer(question, answer) ==
  IF ~isAnswered(question, answer) THEN UNANSWERED_LABEL
  ELSE IF question.type = "short" THEN Trim(answer.s)
  ELSE formatChoiceAnswer(question, answer)

formatCorrectAnswer(question) ==
  IF question.type = "short"
  THEN IF question.answerText.v # <<>> THEN Join(question.answerText.v, <<" ", "/", " ">>)
       ELSE NO_ANSWER_LABEL
  ELSE IF question.type = "multi"
  THEN formatChoiceAnswer(question,
          IF question.answer.kind = "array" THEN question.answer ELSE ArrAnswer(<<>>))
  ELSE formatChoiceAnswer(question,
          IF question.answer.kind = "number" THEN question.answer ELSE NoAnswer)

\* a slip: a question without an entry counts as answered with the first option
AnswerOfMissingIsFirst(answers, id) ==
  IF id \in DOMAIN answers THEN answers[id] ELSE UserNumber(0)

\* answers[question.id] ?? null
AnswerOf(answers, id) == IF id \in DOMAIN answers THEN answers[id] ELSE NullAnswer

QuestionResult(question, userAnswer) ==
  [id |-> question.id, prompt |-> question.prompt, type |-> question.type,
   correct |-> IF isAnswered(question, userAnswer) THEN isCorrectAnswer(question, userAnswer)
               ELSE FALSE,
   answered |-> isAnswered(question, userAnswer),
   userAnswerLabel |-> formatUserAnswer(question, userAnswer),
   correctAnswerLabel |-> formatCorrectAnswer(question),
   explanation |-> question.explanation]

CountWhere(xs, P(_)) == Cardinality({i \in 1..Len(xs) : P(xs[i])})

\* a slip: the unanswered questions are not taken off
GradeIncorrectKeepsUnanswered(total, correct, unanswered) == total - correct

\* total - correct - unanswered
GradeIncorrect(total, correct, unanswered) == total - correct - unanswered

\* total ? Math.round((correct / total) * 100) : 0   (round half up)
GradeAccuracy(total, correct) ==
  IF total # 0 THEN (200 * correct + total) \div (2 * total) ELSE 0

gradeExam(x, answers) ==
  LET results == [i \in 1..Len(x.questions) |->
                    QuestionResult(x.questions[i], AnswerOf(answers, x.questions[i].id))]
      total == Len(results)
      correct == CountWhere(results, LAMBDA item : item.correct)
      unanswered == CountWhere(results, LAMBDA item : ~item.answered)
  IN [total |-> total, correct |-> correct,
      incorrect |-> GradeIncorrect(total, correct, unanswered),
      unanswered |-> unanswered, accuracy |-> GradeAccuracy(total, correct),
      results |-> results]

(***************************************************************************)
(* Input domains.                                                          *)
(***************************************************************************)
\* all sequences over S of length lo..hi
SeqsOf(S, lo, hi) == UNION {[1..n -> S] : n \in lo..hi}

IsInjective(xs) == \A i, j \in 1..Len(xs) : xs[i] = xs[j] => i = j

Q1Id == <<"Q", "1">>
Q2Id == <<"Q", "2">>
IdPool == {Q1Id, Q1Id \o <<"-", "2">>, Q1Id \o <<"-", "3">>, Q2Id}
\* what a person may leave in the id box: one of the ids, or nothing
EditableIdPool == IdPool \cup {<<>>}

TextX == <<"x">>
TextY == <<"y">>
TwoChoices == <<TextX, TextY>>
StandardLabels ==
  {Absent, Present(<<<<"c1">>, <<"c2">>>>), Present(<<<<"1">>, <<"2">>>>),
   Present(<<<<"A">>, <<"B">>>>)}
ShortTexts == {<<"a">>, <<"b">>, <<"a", " ", "b">>}

\* canonical questions as the JSON sample of the repository has them
CanonicalQuestions(id) ==
  {Question(id, "short", <<"p">>, Absent, Absent, NoAnswer, Present(texts), NoStr) :
      texts \in {t \in SeqsOf(ShortTexts, 1, 2) : IsInjective(t)}}
  \cup {Question(id, "single", <<"p">>, Present(TwoChoices), labels, NumAnswer(n), Absent, NoStr) :
      labels \in StandardLabels, n \in 0..1}
  \cup {Question(id, "multi", <<"p">>, Present(TwoChoices), labels, ArrAnswer(ns), Absent, NoStr) :
      labels \in StandardLabels, ns \in {<<0>>, <<1>>, <<0, 1>>, <<1, 0>>}}
  \cup {Question(id, "ox", <<"p">>, OxChoices, OxChoices, NumAnswer(n), Absent, <<"e">>) :
      n \in 0..1}

CanonicalExams ==
  {[title |-> <<"t">>, questions |-> qs] :
      qs \in SeqsOf(CanonicalQuestions(Q1Id), 1, MaxCanonical)}

QuestionTypes == {"single", "multi", "short", "ox"}
ChoicesTexts ==
  {<<>>,
   <<"c1", " ", "x", "\n", "c2", " ", "y">>,
   <<"1", ".", " ", "x", "\n", "2", ".", " ", "y">>,
   <<"A", ")", " ", "x", "\n", "B", ")", " ", "y">>,
   <<"x", "\n", "y">>,
   <<"-", " ", "x", "\n", "-", " ", "y">>}
AnswerTexts ==
  {<<>>, <<"c2">>, <<"2">>, <<"1", ",", " ", "2">>, <<"b">>, <<"y">>,
   <<"a", " ", "|", " ", "b">>, <<"O">>, <<"x">>, <<"a">>, <<"3">>}

\* what a person may have in the editor: one question of any shape, or several
\* questions that differ in the id box only
EditableExams ==
  {[title |-> <<"t">>,
    questions |-> <<EditableQuestion(Q1Id, type, <<"p">>, choicesText, answerText, <<>>)>>] :
      type \in QuestionTypes, choicesText \in ChoicesTexts, answerText \in AnswerTexts}
  \cup {[title |-> <<>>,
         questions |-> [i \in 1..Len(ids) |->
            EditableQuestion(ids[i], "short", <<>>, <<>>, <<"a">>, <<>>)]] :
      ids \in SeqsOf(EditableIdPool, 0, MaxQuestions)}

(***************************************************************************)
(* The transcoder as the application drives it: the canonical exam is      *)
(* rendered to its editable form and the editable form is normalised back, *)
(* over and over (render, save, reload).                                   *)
(***************************************************************************)
InitTranscode ==
  /\ issues = <<>> /\ prevExam = <<>> /\ app = <<>> /\ storage = <<>> /\ arg = 0
  /\ \/ /\ pc = "canonical" /\ ret = "input"
        /\ exam \in {<<x>> : x \in CanonicalExams} /\ editable = <<>>
     \/ /\ pc = "editable" /\ ret = "input"
        /\ editable \in {<<e>> : e \in EditableExams} /\ exam = <<>>

ToEditableExam ==
  /\ pc = "canonical" /\ arg < MaxRounds
  /\ editable' = <<toEditableExam(exam[1])>>
  /\ prevExam' = <<[x |-> exam[1], producer |-> ret]>>
  /\ pc' = "editable"
  /\ UNCHANGED <<app, storage, exam, issues, arg, ret>>

EditableToExam ==
  /\ pc = "editable"
  /\ \E produced \in {editableToExam(editable[1])} :
       /\ exam' = <<produced.exam>>
       /\ issues' = produced.issues
  /\ ret' = "editableToExam"
  /\ arg' = arg + 1
  /\ pc' = "canonical"
  /\ UNCHANGED <<app, storage, editable, prevExam>>

NextTranscode == ToEditableExam \/ EditableToExam

SpecTranscode == InitTranscode /\ [][NextTranscode]_vars

(***************************************************************************)
(* ensureUniqueIds called on a list of questions.                          *)
(***************************************************************************)
IdQuestions ==
  {[i \in 1..Len(ids) |->
      Question(ids[i], "short", <<"p">> \o NatToString(i), Absent, Absent, NoAnswer,
               Present(<<<<"a">>>>), NoStr)] :
   ids \in SeqsOf(IdPool, 0, MaxQuestions)}

InitIds ==
  /\ pc = "call" /\ arg \in IdQuestions /\ ret = <<>>
  /\ exam = <<>> /\ editable = <<>> /\ issues = <<>> /\ prevExam = <<>> /\ app = <<>> /\ storage = <<>>

EnsureUniqueIds ==
  /\ pc = "call"
  /\ ret' = ensureUniqueIds(arg)
  /\ pc' = "done"
  /\ UNCHANGED <<app, storage, arg, exam, editable, issues, prevExam>>

NextIds == EnsureUniqueIds

SpecIds == InitIds /\ [][NextIds]_vars

(***************************************************************************)
(* Properties of the produced ids.                                         *)
(***************************************************************************)
QuestionIds(questions) == [i \in 1..Len(questions) |-> questions[i].id]

\* C2: in every exam returned by a producer (here editableToExam) no two
\* questions have the same id, whatever the ids typed in, including ids that
\* already look like another id followed by a -N suffix.
C2_ProducedIdsUnique ==
  (pc = "canonical" /\ ret = "editableToExam") => IsInjective(QuestionIds(exam[1].questions))

\* number of questions up to and including position i that carry the id of position i
Occurrence(questions, i) ==
  Cardinality({j \in 1..i : questions[j].id = questions[i].id})

\* C3: ensureUniqueIds keeps the id of the first question carrying an id and
\* renames the k-th question (k >= 2, in list order) carrying that original id
\* to "<id>-k"; order and every other field stay as they were; two questions
\* with id Q1 become Q1 and Q1-2.
C3_FirstKeptLaterSuffixed ==
  pc = "done" =>
    /\ Len(ret) = Len(arg)
    /\ \A i \in 1..Len(arg) :
         /\ ret[i].id = IF Occurrence(arg, i) = 1 THEN arg[i].id
                        ELSE arg[i].id \o <<"-">> \o NatToString(Occurrence(arg, i))
         /\ [ret[i] EXCEPT !.id = arg[i].id] = arg[i]
    /\ (QuestionIds(arg) = <<<<"Q", "1">>, <<"Q", "1">>>>
          => QuestionIds(ret) = <<<<"Q", "1">>, <<"Q", "1", "-", "2">>>>)

\* a third question carrying Q1 has been renamed
C3_Witness ==
  /\ pc = "done" /\ Len(arg) = 3
  /\ QuestionIds(arg) = <<<<"Q", "1">>, <<"Q", "1">>, <<"Q", "1">>>>
  /\ ret[3].id = <<"Q", "1", "-", "3">>

(***************************************************************************)
(* Properties of the transcoder.                                           *)
(***************************************************************************)
IsNormalizedText(s) == s # <<>> /\ normalizeChoiceToken(s) = s /\ NoLineTerminator(s)

\* labels in one of the three notations the grammar reads, in position order
IsStandardLabels(labels, n) ==
  /\ Len(labels) = n
  /\ \/ \A i \in 1..n : labels[i] = <<CIRCLED_NUMBERS[i]>>
     \/ \A i \in 1..n : labels[i] = NatToString(i)
     \/ \A i \in 1..n : labels[i] = <<UpperChars[i]>>

WellFormedChoices(q) ==
  /\ q.choices.present /\ q.choices.v # <<>> /\ IsInjective(q.choices.v)
  /\ \A i \in 1..Len(q.choices.v) :
       IsNormalizedText(q.choices.v[i]) /\ ~parseChoiceLine(q.choices.v[i]).matched
  /\ q.choiceLabels.present => IsStandardLabels(q.choiceLabels.v, Len(q.choices.v))

WellFormedQuestion(q) ==
  IF q.type = "short"
  THEN /\ q.answerText.present /\ q.answerText.v # <<>> /\ IsInjective(q.answerText.v)
       /\ \A i \in 1..Len(q.answerText.v) :
            /\ IsNormalizedText(q.answerText.v[i])
            /\ \A k \in 1..Len(q.answerText.v[i]) : q.answerText.v[i][k] \notin ShortDelims
  ELSE IF q.type = "ox"
  THEN q.choices = OxChoices /\ q.answer.kind = "number" /\ q.answer.v[1] \in 0..1
  ELSE IF q.type = "multi"
  THEN /\ WellFormedChoices(q)
       /\ q.answer.kind = "array" /\ q.answer.v # <<>> /\ IsInjective(q.answer.v)
       /\ \A i \in 1..Len(q.answer.v) : q.answer.v[i] \in 0..(Len(q.choices.v) - 1)
  ELSE /\ WellFormedChoices(q)
       /\ q.answer.kind = "number" /\ q.answer.v[1] \in 0..(Len(q.choices.v) - 1)

WellFormedExam(x) == \A i \in 1..Len(x.questions) : WellFormedQuestion(x.questions[i])

\* same choices texts, same answer index or index list, same accepted strings
SameContent(y, x) ==
  /\ Len(y.questions) = Len(x.questions)
  /\ \A i \in 1..Len(x.questions) :
       /\ y.questions[i].choices.v = x.questions[i].choices.v
       /\ y.questions[i].answer = x.questions[i].answer
       /\ y.questions[i].answerText.v = x.questions[i].answerText.v

RoundTripDone == pc = "canonical" /\ ret = "editableToExam" /\ prevExam # <<>>

\* C4: for any canonical exam x with well-formed choices and answers,
\* editableToExam(toEditableExam(x)) has, question by question, the same
\* choices texts, the same answer index or index list and the same accepted
\* answer strings as x.
C4_RoundTrip ==
  (RoundTripDone /\ WellFormedExam(prevExam[1].x)) => SameContent(exam[1], prevExam[1].x)

\* C5: for any exam y that is itself an output of editableToExam,
\* editableToExam(toEditableExam(y)) equals y in choices, answers and accepted
\* short-answer strings.
C5_Idempotent ==
  (RoundTripDone /\ prevExam[1].producer = "editableToExam")
     => SameContent(exam[1], prevExam[1].x)

(***************************************************************************)
(* gradeExam called on an exam and an answers map.                         *)
(***************************************************************************)
ThreeChoices == <<TextX, TextY, <<"z">>>>

GradeQuestions ==
  {Question(<<>>, "single", <<"p">>, Present(TwoChoices), Absent, NumAnswer(1), Absent, NoStr),
   Question(<<>>, "ox", <<"p">>, OxChoices, OxChoices, NumAnswer(0), Absent, NoStr),
   Question(<<>>, "multi", <<"p">>, Present(ThreeChoices), Absent, ArrAnswer(<<0, 2>>), Absent, NoStr),
   Question(<<>>, "short", <<"p">>, Absent, Absent, NoAnswer,
            Present(<<<<"a">>, <<"b", " ", "c">>>>), NoStr)}

\* questions whose own answer is missing, as the producers leave them after a warning
UnkeyedQuestions ==
  {Question(Q1Id, "single", <<"p">>, Present(TwoChoices), Absent, NoAnswer, Absent, NoStr),
   Question(Q1Id, "ox", <<"p">>, OxChoices, OxChoices, NoAnswer, Absent, NoStr),
   Question(Q1Id, "multi", <<"p">>, Present(ThreeChoices), Absent, NoAnswer, Absent, NoStr),
   Question(Q1Id, "multi", <<"p">>, Present(ThreeChoices), Absent, ArrAnswer(<<>>), Absent, NoStr),
   Question(Q1Id, "short", <<"p">>, Absent, Absent, NoAnswer, Present(<<>>), NoStr),
   Question(Q1Id, "short", <<"p">>, Absent, Absent, NoAnswer, Absent, NoStr)}

\* ids Q1..Qn by position, as ensureUniqueIds leaves distinct ids
WithPositionIds(qs) == [i \in 1..Len(qs) |-> [qs[i] EXCEPT !.id = <<"Q">> \o NatToString(i)]]

GradeExams ==
  {[title |-> <<"t">>, questions |-> WithPositionIds(qs)] :
      qs \in SeqsOf(GradeQuestions, 0, MaxGradeQuestions)}
  \cup {[title |-> <<"t">>, questions |-> <<q>>] : q \in UnkeyedQuestions}

GivenAnswers ==
  {UserNumber(0), UserNumber(1), UserArray(<<2, 0>>), UserArray(<<0>>),
   UserString(<<" ", "A", " ">>), UserString(<<" ">>)}

AnswerMaps(x) ==
  UNION {[S -> GivenAnswers] : S \in SUBSET {x.questions[i].id : i \in 1..Len(x.questions)}}

MultiCorrectLists == {<<0, 2>>, <<2, 0>>, <<0, 0, 2>>, <<1>>, <<>>}

MultiExams ==
  {[title |-> <<"t">>,
    questions |-> <<Question(Q1Id, "multi", <<"p">>, Present(ThreeChoices), Absent,
                             ArrAnswer(ns), Absent, NoStr)>>] : ns \in MultiCorrectLists}

\* accepted answers as the producers leave them: trimmed and not empty, but
\* with the letter case and the inner spacing of the input
ShortAccepted ==
  {Absent, Present(<<>>), Present(<<<<"a">>>>), Present(<<<<"A", " ", "b">>>>),
   Present(<<<<"a", " ", "\t", "B">>>>), Present(<<<<"b">>, <<"a", "b">>>>)}

ShortExams ==
  {[title |-> <<"t">>,
    questions |-> <<Question(Q1Id, "short", <<"p">>, Absent, Absent, NoAnswer, accepted, NoStr)>>] :
      accepted \in ShortAccepted}

\* what a person may type into the answer box
TypedStrings == SeqsOf({" ", "\t", "a", "A", "b"}, 0, MaxShortLen)

InitGrade ==
  /\ pc = "call" /\ ret = <<>>
  /\ editable = <<>> /\ issues = <<>> /\ prevExam = <<>> /\ app = <<>> /\ storage = <<>>
  /\ \/ \E x \in GradeExams : exam = <<x>> /\ arg \in AnswerMaps(x)
     \/ \E x \in MultiExams :
          /\ exam = <<x>>
          /\ arg \in {[id \in {Q1Id} |-> UserArray(ns)] : ns \in SeqsOf(0..2, 0, MaxUserList)}
     \/ \E x \in ShortExams :
          /\ exam = <<x>>
          /\ arg \in {[id \in {Q1Id} |-> UserString(typed)] : typed \in TypedStrings}

GradeExam ==
  /\ pc = "call"
  /\ ret' = <<gradeExam(exam[1], arg)>>
  /\ pc' = "done"
  /\ UNCHANGED <<app, storage, exam, arg, editable, issues, prevExam>>

NextGrade == GradeExam

SpecGrade == InitGrade /\ [][NextGrade]_vars

AllCorrect(summary) == \A i \in 1..Len(summary.results) : summary.results[i].correct

\* C8 as stated: accuracy = 100 when every question of the exam is answered
\* correctly; accuracy = 0 with unanswered = total and correct = 0 when the
\* answers map is empty.
C8_AccuracyExtremes ==
  pc = "done" =>
    /\ AllCorrect(ret[1]) => ret[1].accuracy = 100
    /\ DOMAIN arg = {} =>
         ret[1].accuracy = 0 /\ ret[1].unanswered = ret[1].total /\ ret[1].correct = 0

\* C8 amended: for an exam with at least one question, accuracy = 100 when
\* every question is answered correctly (an exam without questions has
\* accuracy 0); accuracy = 0 with unanswered = total and correct = 0 when the
\* answers map is empty.
C8_AccuracyExtremesNonEmpty ==
  pc = "done" =>
    /\ (Len(exam[1].questions) > 0 /\ AllCorrect(ret[1])) => ret[1].accuracy = 100
    /\ (Len(exam[1].questions) = 0) => ret[1].accuracy = 0
    /\ DOMAIN arg = {} =>
         ret[1].accuracy = 0 /\ ret[1].unanswered = ret[1].total /\ ret[1].correct = 0

\* two questions, both answered correctly
C8_Witness ==
  /\ pc = "done" /\ Len(exam[1].questions) = 2 /\ AllCorrect(ret[1])
  /\ ret[1].accuracy = 100 /\ ret[1].unanswered = 0

\* C9: total is the number of questions, correct + incorrect + unanswered =
\* total with all three non-negative, and incorrect is the number of
\* per-question results that are answered and not correct.
C9_CountsPartition ==
  pc = "done" =>
    /\ ret[1].total = Len(exam[1].questions)
    /\ ret[1].correct + ret[1].incorrect + ret[1].unanswered = ret[1].total
    /\ ret[1].correct >= 0 /\ ret[1].incorrect >= 0 /\ ret[1].unanswered >= 0
    /\ ret[1].incorrect =
         Cardinality({i \in 1..Len(ret[1].results) :
                        ret[1].results[i].answered /\ ~ret[1].results[i].correct})

\* one question correct, one answered wrongly, one left unanswered
C9_Witness ==
  /\ pc = "done"
  /\ ret[1].correct = 1 /\ ret[1].incorrect = 1 /\ ret[1].unanswered = 1

IndexSet(xs) == {xs[i] : i \in 1..Len(xs)}

IsMultiCall ==
  /\ pc = "done" /\ Len(exam[1].questions) = 1
  /\ exam[1].questions[1].type = "multi" /\ exam[1].questions[1].answer.kind = "array"
  /\ AnswerOf(arg, exam[1].questions[1].id).kind = "array"
  /\ AnswerOf(arg, exam[1].questions[1].id).v # <<>>

\* C10: a non-empty user list for a multi question is graded correct if and
\* only if its set of distinct indices equals the set of distinct correct
\* indices, whatever the order or repetition; a strict subset or superset of
\* the correct set is graded incorrect.
C10_MultiSetEquality ==
  IsMultiCall =>
    LET user == IndexSet(AnswerOf(arg, exam[1].questions[1].id).v)
        right == IndexSet(exam[1].questions[1].answer.v)
    IN /\ ret[1].results[1].correct <=> (user = right)
       /\ (user # right /\ (user \subseteq right \/ right \subseteq user))
             => (~ret[1].results[1].correct /\ ret[1].incorrect = 1)

\* the correct list [0,2] answered as [2,0,2]
C10_Witness ==
  /\ IsMultiCall
  /\ exam[1].questions[1].answer.v = <<0, 2>>
  /\ AnswerOf(arg, exam[1].questions[1].id).v = <<2, 0, 2>>
  /\ ret[1].results[1].correct

\* the words of a string: its maximal runs of characters that are not white
\* space, in lower case
WordsOf(str) ==
  LET runs == NonEmpty(SplitRuns(str, {" ", "\t", "\n", "\r"}))
  IN [i \in 1..Len(runs) |-> ToLowerCase(runs[i])]

IsShortCall ==
  /\ pc = "done" /\ Len(exam[1].questions) = 1
  /\ exam[1].questions[1].type = "short"
  /\ AnswerOf(arg, exam[1].questions[1].id).kind = "string"

AcceptedOf(question) == IF question.answerText.present THEN question.answerText.v ELSE <<>>

\* C11: for a short question, a user string is graded correct if and only if
\* it has the same words, up to letter case, as some accepted answer (that is,
\* the two are equal after trimming, collapsing runs of white space to one
\* space and lower-casing); a user string that is empty after trimming is
\* counted as unanswered and not as incorrect.
C11_ShortNormalizedMembership ==
  IsShortCall =>
    LET typed == AnswerOf(arg, exam[1].questions[1].id).s
        accepted == AcceptedOf(exam[1].questions[1])
    IN /\ ret[1].results[1].correct <=>
            \E i \in 1..Len(accepted) : WordsOf(accepted[i]) = WordsOf(typed)
       /\ ret[1].correct = (IF ret[1].results[1].correct THEN 1 ELSE 0)
       /\ Trim(typed) = <<>> =>
            /\ ~ret[1].results[1].answered /\ ~ret[1].results[1].correct
            /\ ret[1].unanswered = 1 /\ ret[1].incorrect = 0

\* "A", two blanks, "b" typed for the accepted answer "a", blank, tab, "B"
C11_Witness ==
  /\ IsShortCall
  /\ AcceptedOf(exam[1].questions[1]) = <<<<"a", " ", "\t", "B">>>>
  /\ AnswerOf(arg, exam[1].questions[1].id).s = <<"A", " ", " ", "b">>
  /\ ret[1].results[1].correct /\ ret[1].correct = 1

(***************************************************************************)
(* formatChoiceLabel called on a question and an index.                    *)
(***************************************************************************)
\* labels as the producers leave them: a circled numeral, a number, a letter,
\* free text, the empty string (a JSON label that is blank after trim) and
\* undefined (a choice line without marker among labelled ones)
LabelPool == {<<"c1">>, <<"1">>, <<"A">>, <<"(", "ga", ")">>, <<>>, NoStr}

LabelQuestions ==
  {Question(Q1Id, type, <<"p">>, Present(choices), labels, NoAnswer, Absent, NoStr) :
      type \in QuestionTypes,
      choices \in SeqsOf({TextX, TextY}, 0, MaxChoices),
      labels \in {Absent} \cup {Present(ls) : ls \in SeqsOf(LabelPool, 0, MaxChoices)}}

InitLabel ==
  /\ pc = "call" /\ ret = <<>>
  /\ exam = <<>> /\ editable = <<>> /\ issues = <<>> /\ prevExam = <<>> /\ app = <<>> /\ storage = <<>>
  /\ \E q \in LabelQuestions :
       /\ q.choiceLabels.present => Len(q.choiceLabels.v) = Len(q.choices.v)
       /\ arg \in {[question |-> q, index |-> n] : n \in 0..Len(q.choices.v)}

FormatChoiceLabel ==
  /\ pc = "call"
  /\ ret' = formatChoiceLabel(arg.question, arg.index)
  /\ pc' = "done"
  /\ UNCHANGED <<app, storage, arg, exam, editable, issues, prevExam>>

NextLabel == FormatChoiceLabel

SpecLabel == InitLabel /\ [][NextLabel]_vars

\* C7: for every question (any type, choiceLabels absent or as long as
\* choices) and every index from 0 to choices.length, formatChoiceLabel
\* returns a non-empty string.
C7_LabelNonEmpty == pc = "done" => ret # <<>>

(***************************************************************************)
(* extractIndicesFromText called on a raw answer and a list of choices.    *)
(***************************************************************************)
RawAlphabet == {"a", "1", "0", " ", ",", "c2", "."}
RawStrings == SeqsOf(RawAlphabet, 0, MaxRawLen)

ChoiceStrings ==
  {<<"ga">>, <<"a", "B">>, <<"A", "B">>, <<"a", "B", ".">>, <<"ga", " ", "ga">>,
   <<"(", "ga", ")">>, <<"a">>, <<"2">>, <<"0">>, <<"c", "o", "n", "s", "t", "r", "u", "c", "t", "o", "r">>}

InitExtract ==
  /\ pc = "call" /\ ret = <<>>
  /\ exam = <<>> /\ editable = <<>> /\ issues = <<>> /\ prevExam = <<>> /\ app = <<>> /\ storage = <<>>
  /\ \E choices \in SeqsOf(ChoiceStrings, 0, MaxChoices) :
       arg \in {[raw |-> raw, choices |-> choices] :
                  raw \in RawStrings \cup {choices[i] : i \in 1..Len(choices)}}

ExtractIndices ==
  /\ pc = "call"
  /\ ret' = extractIndicesFromText(arg.raw, arg.choices)
  /\ pc' = "done"
  /\ UNCHANGED <<app, storage, arg, exam, editable, issues, prevExam>>

NextExtract == ExtractIndices

SpecExtract == InitExtract /\ [][NextExtract]_vars

SameChoiceText(a, b) ==
  ToLowerCase(normalizeChoiceToken(a)) = ToLowerCase(normalizeChoiceToken(b))

\* the text of choices[i] is read by the choice-text rule and by nothing else
ReadAsChoiceText(choices, i) ==
  LET text == choices[i]
      tokens == AnswerTokens(CleanAnswer(text))
  IN /\ Trim(text) # <<>>
     /\ \A k \in 1..Len(text) : text[k] \notin BracketChars \cup BulletChars
     /\ \A t \in 1..Len(tokens) :
          LET nt == StripTokenTail(tokens[t]) IN
          /\ ~(Len(nt) = 1 /\ IsCircled(nt[1]))
          /\ nt \notin INHERITED_KEYS
          /\ ~(Len(nt) = 1 /\ IsLetter(nt[1]))
          /\ ~TokenPositiveNumber(nt)
          /\ \A j \in 1..Len(choices) : SameChoiceText(choices[j], nt) => SameChoiceText(choices[i], nt)
     /\ \A j \in 1..(i - 1) : ~SameChoiceText(choices[j], text)

Drop(s, n) == SubSeq(s, n + 1, Len(s))
StartsWith(s, p) == Len(s) >= Len(p) /\ SubSeq(s, 1, Len(p)) = p
EndsWith(s, p) == Len(s) >= Len(p) /\ SubSeq(s, Len(s) - Len(p) + 1, Len(s)) = p
\* a literal word at the start of s, under the /i flag
StartsWithWord(s, w) == StartsWith(ToLowerCase(s), ToLowerCase(w))

Word ==
  [jeongdap |-> <<"jeong", "dap">>,
   haeseol |-> <<"hae", "seol">>,
   munje |-> <<"mun", "je">>,
   answer |-> <<"a", "n", "s", "w", "e", "r">>,
   key |-> <<"k", "e", "y">>,
   explanation |-> <<"e", "x", "p", "l", "a", "n", "a", "t", "i", "o", "n">>,
   question |-> <<"q", "u", "e", "s", "t", "i", "o", "n">>,
   null |-> <<"n", "u", "l", "l">>,
   true |-> <<"t", "r", "u", "e">>,
   false |-> <<"f", "a", "l", "s", "e">>]

\* `Q${n}`
FallbackId(n) == <<"Q">> \o NatToString(n)

\* s.replace(/cc/g, ""): pairs of the character c are removed, left to right
\* (of a maximal run of c one character is left when its length is odd)
RemovePairs(s, c) ==
  LET RunStart(i) == CHOOSE a \in 1..i : /\ \A j \in a..i : s[j] = c
                                         /\ (a = 1 \/ s[a - 1] # c)
      kept == SelectSeq([i \in 1..Len(s) |-> i],
                        LAMBDA i : \/ s[i] # c
                                   \/ /\ (i = Len(s) \/ s[i + 1] # c)
                                      /\ (i - RunStart(i) + 1) % 2 = 1)
  IN [k \in 1..Len(kept) |-> s[kept[k]]]

\* line.replace(/^\s*[-*+>]\s+/, "")
StripListMarker(line) ==
  LET t == TrimStart(line) IN
  IF Len(t) >= 2 /\ t[1] \in {"-", "*", "+", ">"} /\ IsWS(t[2])
  THEN TrimStart(Tail(t)) ELSE line

stripMarkdown(line) ==
  Trim(SelectSeq(RemovePairs(RemovePairs(StripListMarker(line), "*"), "_"),
                 LAMBDA c : c # "tick"))

DashChars == {"-", "en", "em"}

isSectionDivider(line) ==
  LET t == Trim(line) IN Len(t) >= 3 /\ \A i \in 1..Len(t) : t[i] \in DashChars

RECURSIVE LeadingHashes(_)
LeadingHashes(s) == IF s # <<>> /\ Head(s) = "#" THEN 1 + LeadingHashes(Tail(s)) ELSE 0

\* the words of /^(...|ox|...|...|jeongdap|haeseol)/
HEADING_WORDS ==
  {<<"gaek", "gwan", "sik">>, <<"o", "x">>, <<"bin", "kan">>,
   <<"sa", "rye", "hyeong">>, Word.jeongdap, Word.haeseol}

isSectionHeading(line) ==
  \/ /\ LeadingHashes(line) \in 1..6
     /\ Len(line) > LeadingHashes(line)
     /\ IsWS(line[LeadingHashes(line) + 1])
  \/ \E w \in HEADING_WORDS : StartsWith(ToLowerCase(stripMarkdown(line)), w)

\* trimmed.replace(/^#{1,6}\s*/, "").trim()
StripHeadingMarker(s) ==
  Trim(Drop(s, IF LeadingHashes(s) > 6 THEN 6 ELSE LeadingHashes(s)))

\* /^(jeongdap|jeongdap\s*(?:&|mit|\/)\s*haeseol|Answer\s*Key)$/i
IsAnswerKeyHeader(normalized) ==
  LET l == ToLowerCase(normalized) IN
  \/ l = Word.jeongdap
  \/ /\ StartsWith(l, Word.jeongdap)
     /\ LET r == TrimStart(Drop(l, Len(Word.jeongdap))) IN
        r # <<>> /\ Head(r) \in {"&", "mit", "/"} /\ TrimStart(Tail(r)) = Word.haeseol
  \/ /\ StartsWith(l, Word.answer)
     /\ TrimStart(Drop(l, Len(Word.answer))) = Word.key

\* the loop of splitAnswerSection: 1-based position of the header line, 0 if none
RECURSIVE FirstHeaderLine(_, _)
FirstHeaderLine(lines, i) ==
  IF i > Len(lines) THEN 0
  ELSE LET trimmed == Trim(lines[i]) IN
       IF /\ trimmed # <<>>
          /\ \A j \in 1..Len(trimmed) : trimmed[j] # ":"
          /\ IsAnswerKeyHeader(StripHeadingMarker(trimmed))
       THEN i
       ELSE FirstHeaderLine(lines, i + 1)

\* answerText is null (<<>>) or a one-element list holding the text
splitAnswerSection(raw) ==
  LET lines == SplitLines(raw)
      splitIndex == FirstHeaderLine(lines, 1)
  IN IF splitIndex = 0
     THEN [questionText |-> raw, answerText |-> <<>>]
     ELSE [questionText |-> Join(SubSeq(lines, 1, splitIndex - 1), <<"\n">>),
           answerText |-> <<Join(SubSeq(lines, splitIndex + 1, Len(lines)), <<"\n">>)>>]

AnswerKeyEntry(answer, explanation) == [answer |-> answer, explanation |-> explanation]

\* trimmed.length <= 24, or one Latin letter, or O / X
isShortAnswerToken(value) ==
  LET trimmed == Trim(value) IN
  \/ Len(trimmed) <= 24
  \/ Len(trimmed) = 1 /\ IsLetter(trimmed[1])

stripWrappingParens(value) ==
  LET trimmed == Trim(value) IN
  IF StartsWith(trimmed, <<"(">>) /\ EndsWith(trimmed, <<")">>)
  THEN Trim(SubSeq(trimmed, 2, Len(trimmed) - 1))
  ELSE trimmed

IsStars(s, i) == i + 1 <= Len(s) /\ s[i] = "*" /\ s[i + 1] = "*"

\* raw.match(/\*\*(.+?)\*\*/): <<first, last>> of the leftmost shortest match, <<>> if none
BoldMatch(s) ==
  LET closes(i) == {j \in (i + 3)..Len(s) :
                      IsStars(s, j) /\ NoLineTerminator(SubSeq(s, i + 2, j - 1))}
      starts == {i \in 1..Len(s) : IsStars(s, i) /\ closes(i) # {}}
  IN IF starts = {} THEN <<>>
     ELSE LET i == CHOOSE a \in starts : \A b \in starts : a <= b
              j == CHOOSE a \in closes(i) : \A b \in closes(i) : a <= b
          IN <<i, j + 1>>

\* cleaned.match(/^(?:ye[:\)])\s*(.+)$/): the captured text, <<>> when no match
ExampleBody(cleaned) ==
  IF Len(cleaned) >= 2 /\ cleaned[1] = "ye" /\ cleaned[2] \in {":", ")"}
  THEN ChoiceBody(Drop(cleaned, 2))
  ELSE <<>>

\* cleaned.match(/^(.+?)\s*(?:\((.+)\))?\s*$/) with its second group taking part:
\* the lengths p of the candidates followed by a parenthesised detail
DetailSplits(cleaned) ==
  {p \in 1..Len(cleaned) :
     LET t == Trim(Drop(cleaned, p)) IN
     /\ Len(t) >= 3 /\ t[1] = "(" /\ t[Len(t)] = ")"
     /\ NoLineTerminator(SubSeq(cleaned, 1, p))
     /\ NoLineTerminator(SubSeq(t, 2, Len(t) - 1))}

\* AnswerKeyEntry | null, as a list of at most one entry
parseAnswerEntry(raw) ==
  LET bold == BoldMatch(raw)
      cleaned == stripMarkdown(raw)
      splits == DetailSplits(cleaned)
  IN IF raw = <<>> THEN <<>>
     ELSE IF bold # <<>>
     THEN LET remainder == Trim(SubSeq(raw, 1, bold[1] - 1) \o Drop(raw, bold[2]))
          IN <<AnswerKeyEntry(Trim(SubSeq(raw, bold[1] + 2, bold[2] - 2)),
                              IF remainder # <<>>
                              THEN stripWrappingParens(stripMarkdown(remainder))
                              ELSE NoStr)>>
     ELSE IF ExampleBody(cleaned) # <<>>
     THEN <<AnswerKeyEntry(Trim(ExampleBody(cleaned)), NoStr)>>
     ELSE IF splits # {}
     THEN LET p == CHOOSE a \in splits : \A b \in splits : a <= b
              t == Trim(Drop(cleaned, p))
              candidate == Trim(SubSeq(cleaned, 1, p))
              detail == Trim(SubSeq(t, 2, Len(t) - 1))
          IN IF detail # <<>> /\ isShortAnswerToken(candidate)
             THEN <<AnswerKeyEntry(candidate, detail)>>
             ELSE <<AnswerKeyEntry(Trim(cleaned), NoStr)>>
     ELSE <<AnswerKeyEntry(Trim(cleaned), NoStr)>>

NoKeyLine == [matched |-> FALSE, number |-> <<>>, body |-> <<>>]
KeyLine(number, body) ==
  IF NoLineTerminator(body) THEN [matched |-> TRUE, number |-> number, body |-> body]
  ELSE NoKeyLine

\* cleaned.match(/^(\d+)\s*[\)\.]?\s*(.+)$/), with the backtracking that leaves
\* at least one character for the second group
NumberedAnswer(cleaned) ==
  LET k == LeadingDigits(cleaned)
      r1 == TrimStart(Drop(cleaned, k))
      r2 == IF r1 # <<>> /\ Head(r1) \in {")", "."} THEN TrimStart(Tail(r1)) ELSE r1
  IN IF k = 0 THEN NoKeyLine
     ELSE IF r2 # <<>> THEN KeyLine(SubSeq(cleaned, 1, k), r2)
     ELSE IF r1 # <<>> THEN KeyLine(SubSeq(cleaned, 1, k), r1)
     ELSE IF Drop(cleaned, k) # <<>> THEN NoKeyLine
     ELSE IF k >= 2 THEN KeyLine(SubSeq(cleaned, 1, k - 1), <<cleaned[k]>>)
     ELSE NoKeyLine

\* the entries set by one line of the answer key (none or one), as <<key, entry>>
AnswerKeyLine(line) ==
  LET trimmed == Trim(line)
      m == NumberedAnswer(stripMarkdown(trimmed))
  IN IF trimmed = <<>> THEN <<>>
     ELSE IF isSectionDivider(trimmed) \/ isSectionHeading(trimmed) THEN <<>>
     ELSE IF ~m.matched THEN <<>>
     ELSE IF parseAnswerEntry(Trim(m.body)) = <<>> THEN <<>>
     ELSE <<[key |-> <<"Q">> \o m.number, entry |-> parseAnswerEntry(Trim(m.body))[1]]>>

\* the Map as the list of its set() calls, in order
parseAnswerKey(raw) ==
  LET lines == SplitLines(raw) IN
  Flatten([i \in 1..Len(lines) |-> AnswerKeyLine(lines[i])])

\* answerKey.get(key): the entry of the last set() for the key, <<>> when undefined
AnswerKeyGet(answerKey, key) ==
  IF \E i \in 1..Len(answerKey) : answerKey[i].key = key
  THEN <<answerKey[CHOOSE i \in 1..Len(answerKey) :
            /\ answerKey[i].key = key
            /\ \A j \in (i + 1)..Len(answerKey) : answerKey[j].key # key].entry>>
  ELSE <<>>

NoStart == [matched |-> FALSE, id |-> <<>>, prompt |-> <<>>]
QuestionStart(number, rest) ==
  IF NoLineTerminator(rest)
  THEN [matched |-> TRUE, id |-> <<"Q">> \o number, prompt |-> Trim(rest)]
  ELSE NoStart

\* "(\d+)\s*[puncts]?\s*(.*)$" (mandatory: "[puncts]" without "?") applied to s
NumberedStart(s, puncts, mandatory) ==
  LET k == LeadingDigits(s)
      r1 == TrimStart(Drop(s, k))
      hasPunct == r1 # <<>> /\ Head(r1) \in puncts
  IN IF k = 0 THEN NoStart
     ELSE IF hasPunct THEN QuestionStart(SubSeq(s, 1, k), TrimStart(Tail(r1)))
     ELSE IF mandatory THEN NoStart
     ELSE QuestionStart(SubSeq(s, 1, k), r1)

\* "\s*#?\s*" after the word
AfterOptionalHash(s) ==
  LET r == TrimStart(s) IN
  IF r # <<>> /\ Head(r) = "#" THEN TrimStart(Tail(r)) ELSE r

\* a slip: the bare number form is tried whatever allowNumeric says
parseQuestionStartAnyNumber(line, allowNumeric) ==
  LET worded == IF StartsWithWord(line, Word.munje)
                THEN NumberedStart(AfterOptionalHash(Drop(line, Len(Word.munje))),
                                   {")", ".", ":"}, FALSE)
                ELSE IF StartsWithWord(line, Word.question)
                THEN NumberedStart(AfterOptionalHash(Drop(line, Len(Word.question))),
                                   {")", ".", ":"}, FALSE)
                ELSE NoStart
      lettered == IF StartsWithWord(line, <<"Q">>)
                  THEN NumberedStart(TrimStart(Tail(line)), {")", ".", ":"}, FALSE)
                  ELSE NoStart
      hashed == IF StartsWith(line, <<"#">>)
                THEN NumberedStart(TrimStart(Tail(line)), {}, FALSE)
                ELSE NoStart
      numbered == NumberedStart(line, {")", ".", ":"}, TRUE)
  IN IF worded.matched THEN worded
     ELSE IF lettered.matched THEN lettered
     ELSE IF hashed.matched THEN hashed
     ELSE IF numbered.matched THEN numbered
     ELSE NoStart

parseQuestionStart(line, allowNumeric) ==
  LET worded == IF StartsWithWord(line, Word.munje)
                THEN NumberedStart(AfterOptionalHash(Drop(line, Len(Word.munje))),
                                   {")", ".", ":"}, FALSE)
                ELSE IF StartsWithWord(line, Word.question)
                THEN NumberedStart(AfterOptionalHash(Drop(line, Len(Word.question))),
                                   {")", ".", ":"}, FALSE)
                ELSE NoStart
      lettered == IF StartsWithWord(line, <<"Q">>)
                  THEN NumberedStart(TrimStart(Tail(line)), {")", ".", ":"}, FALSE)
                  ELSE NoStart
      hashed == IF StartsWith(line, <<"#">>)
                THEN NumberedStart(TrimStart(Tail(line)), {}, FALSE)
                ELSE NoStart
      numbered == NumberedStart(line, {")", ".", ":"}, TRUE)
  IN IF worded.matched THEN worded
     ELSE IF lettered.matched THEN lettered
     ELSE IF hashed.matched THEN hashed
     ELSE IF allowNumeric /\ numbered.matched THEN numbered
     ELSE NoStart

\* cleaned.match(/^(w1|w2)\s*[:\)\-]\s*(.+)$/i): the captured text as a
\* one-element list, <<>> when the line does not match
MarkerBody(cleaned, words) ==
  IF \E w \in words : StartsWithWord(cleaned, w)
  THEN LET w == CHOOSE v \in words : StartsWithWord(cleaned, v)
           r == TrimStart(Drop(cleaned, Len(w)))
       IN IF r # <<>> /\ Head(r) \in {":", ")", "-"} /\ ChoiceBody(Tail(r)) # <<>>
          THEN <<ChoiceBody(Tail(r))>>
          ELSE <<>>
  ELSE <<>>

PlainBlock(id, promptLines) ==
  [id |-> id, promptLines |-> promptLines, choices |-> <<>>, choiceLabels |-> <<>>,
   answerRaw |-> <<>>, explanationLines |-> <<>>]

\* blocks, current (null is <<>>) and lastWasBlank of parsePlainText
LoopStart == [blocks |-> <<>>, current |-> <<>>, lastWasBlank |-> TRUE]

commitCurrent(st) ==
  IF st.current = <<>> THEN st
  ELSE [st EXCEPT !.blocks = Append(@, st.current[1]), !.current = <<>>]

\* prompt is undefined (<<>>) or a string; an empty string opens no prompt line either
startBlock(st, id, prompt) ==
  [commitCurrent(st) EXCEPT
     !.current = <<PlainBlock(id, IF prompt # <<>> THEN <<prompt>> ELSE <<>>)>>]

\* "if (!current) startBlock(`Q${blocks.length + 1}`)"
EnsureBlock(st) ==
  IF st.current = <<>> THEN startBlock(st, FallbackId(Len(st.blocks) + 1), <<>>) ELSE st

\* a slip: a line of free text after a choice becomes one more choice
LineStepFreeTextIsChoice(st, line) ==
  LET trimmed == Trim(line)
      cleaned == stripMarkdown(trimmed)
      answerMatch == MarkerBody(cleaned, {Word.jeongdap, Word.answer})
      explanationMatch == MarkerBody(cleaned, {Word.haeseol, Word.explanation})
      questionStart == parseQuestionStart(cleaned, st.current = <<>> \/ st.lastWasBlank)
      choiceToken == IF parseChoiceLine(trimmed).matched THEN parseChoiceLine(trimmed)
                     ELSE parseChoiceLine(cleaned)
  IN IF trimmed = <<>> THEN [st EXCEPT !.lastWasBlank = TRUE]
     ELSE IF answerMatch # <<>>
     THEN [EnsureBlock(st) EXCEPT !.current[1].answerRaw = Trim(answerMatch[1]),
                                  !.lastWasBlank = FALSE]
     ELSE IF explanationMatch # <<>>
     THEN [EnsureBlock(st) EXCEPT
             !.current[1].explanationLines = Append(@, Trim(explanationMatch[1])),
             !.lastWasBlank = FALSE]
     ELSE IF questionStart.matched
     THEN [startBlock(st, questionStart.id, questionStart.prompt) EXCEPT !.lastWasBlank = FALSE]
     ELSE IF choiceToken.matched /\ st.current # <<>>
     THEN [st EXCEPT !.current[1].choices = Append(@, choiceToken.text),
                     !.current[1].choiceLabels = Append(@, choiceToken.label),
                     !.lastWasBlank = FALSE]
     ELSE IF isSectionDivider(trimmed) \/ isSectionHeading(trimmed)
     THEN [st EXCEPT !.lastWasBlank = TRUE]
     ELSE IF st.current = <<>>
     THEN [startBlock(st, FallbackId(Len(st.blocks) + 1), cleaned) EXCEPT !.lastWasBlank = FALSE]
     ELSE IF st.current[1].choices # <<>>
     THEN [st EXCEPT !.current[1].choices = Append(@, cleaned),
                     !.lastWasBlank = FALSE]
     ELSE [st EXCEPT !.current[1].promptLines = Append(@, cleaned), !.lastWasBlank = FALSE]

\* one iteration of the line loop
LineStep(st, line) ==
  LET trimmed == Trim(line)
      cleaned == stripMarkdown(trimmed)
      answerMatch == MarkerBody(cleaned, {Word.jeongdap, Word.answer})
      explanationMatch == MarkerBody(cleaned, {Word.haeseol, Word.explanation})
      questionStart == parseQuestionStart(cleaned, st.current = <<>> \/ st.lastWasBlank)
      choiceToken == IF parseChoiceLine(trimmed).matched THEN parseChoiceLine(trimmed)
                     ELSE parseChoiceLine(cleaned)
  IN IF trimmed = <<>> THEN [st EXCEPT !.lastWasBlank = TRUE]
     ELSE IF answerMatch # <<>>
     THEN [EnsureBlock(st) EXCEPT !.current[1].answerRaw = Trim(answerMatch[1]),
                                  !.lastWasBlank = FALSE]
     ELSE IF explanationMatch # <<>>
     THEN [EnsureBlock(st) EXCEPT
             !.current[1].explanationLines = Append(@, Trim(explanationMatch[1])),
             !.lastWasBlank = FALSE]
     ELSE IF questionStart.matched
     THEN [startBlock(st, questionStart.id, questionStart.prompt) EXCEPT !.lastWasBlank = FALSE]
     ELSE IF choiceToken.matched /\ st.current # <<>>
     THEN [st EXCEPT !.current[1].choices = Append(@, choiceToken.text),
                     !.current[1].choiceLabels = Append(@, choiceToken.label),
                     !.lastWasBlank = FALSE]
     ELSE IF isSectionDivider(trimmed) \/ isSectionHeading(trimmed)
     THEN [st EXCEPT !.lastWasBlank = TRUE]
     ELSE IF st.current = <<>>
     THEN [startBlock(st, FallbackId(Len(st.blocks) + 1), cleaned) EXCEPT !.lastWasBlank = FALSE]
     ELSE IF st.current[1].choices # <<>>
     THEN [st EXCEPT
             !.current[1].choices[Len(st.current[1].choices)] =
                Trim(@ \o <<" ">> \o cleaned),
             !.lastWasBlank = FALSE]
     ELSE [st EXCEPT !.current[1].promptLines = Append(@, cleaned), !.lastWasBlank = FALSE]

\* (the state after a line is computed before the next line is read)
RECURSIVE LineLoop(_, _)
LineLoop(st, lines) ==
  IF lines = <<>> THEN st
  ELSE CHOOSE after \in {LineLoop(next, Tail(lines)) : next \in {LineStep(st, Head(lines))}} : TRUE

\* the blocks after the loop and the final commitCurrent()
PlainBlocks(questionText) ==
  commitCurrent(LineLoop(LoopStart, SplitLines(questionText))).blocks

guessQuestionType(choices, answerRaw) ==
  LET trimmed == Trim(answerRaw) IN
  IF isOxAnswer(answerRaw) THEN "ox"
  ELSE IF choices # <<>>
  THEN IF /\ \E i \in 1..Len(trimmed) : trimmed[i] \in {",", "/", "|"} \/ IsWS(trimmed[i])
          /\ Len(trimmed) > 1
          /\ Len(extractIndicesFromText(answerRaw, choices)) > 1
       THEN "multi" ELSE "single"
  ELSE "short"

\* answerKey.get(id) ?? answerKey.get(`Q${index + 1}`)
BlockAnswerEntry(block, index, answerKey) ==
  LET id == IF Trim(block.id) # <<>> THEN Trim(block.id) ELSE FallbackId(index + 1) IN
  IF AnswerKeyGet(answerKey, id) # <<>> THEN AnswerKeyGet(answerKey, id)
  ELSE AnswerKeyGet(answerKey, FallbackId(index + 1))

\* a slip: the entry of the answer key is preferred to the inline answer
BlockAnswerRawKeyFirst(block, index, answerKey) ==
  IF BlockAnswerEntry(block, index, answerKey) # <<>>
  THEN Trim(BlockAnswerEntry(block, index, answerKey)[1].answer)
  ELSE Trim(block.answerRaw)

\* answerRaw after the answer key has been consulted
BlockAnswerRaw(block, index, answerKey) ==
  IF Trim(block.answerRaw) = <<>> /\ BlockAnswerEntry(block, index, answerKey) # <<>>
  THEN Trim(BlockAnswerEntry(block, index, answerKey)[1].answer)
  ELSE Trim(block.answerRaw)

\* explanation after the answer key has been consulted
BlockExplanation(block, index, answerKey) ==
  LET explanation == Trim(Join(block.explanationLines, <<" ">>))
      answerEntry == BlockAnswerEntry(block, index, answerKey)
  IN IF /\ explanation = <<>> /\ answerEntry # <<>>
        /\ answerEntry[1].explanation # NoStr /\ answerEntry[1].explanation # <<>>
     THEN Trim(answerEntry[1].explanation)
     ELSE explanation

\* parseOxAnswer(answerRaw) ?? extractIndicesFromText(answerRaw, ["O", "X"])[0]
PlainOxAnswer(answerRaw) ==
  IF answerRaw = <<>> THEN NoAnswer
  ELSE IF parseOxAnswer(answerRaw) # <<>> THEN NumAnswer(parseOxAnswer(answerRaw)[1])
  ELSE FirstAnswer(extractIndicesFromText(answerRaw, <<<<"O">>, <<"X">>>>))

\* the question that the map callback of parsePlainText returns for a block
PlainBlockToQuestion(block, index, answerKey) ==
  LET id == IF Trim(block.id) # <<>> THEN Trim(block.id) ELSE FallbackId(index + 1)
      prompt == Trim(Join(block.promptLines, <<"\n">>))
      explanation == OrUndefined(BlockExplanation(block, index, answerKey))
      answerRaw == BlockAnswerRaw(block, index, answerKey)
      choices == [i \in 1..Len(block.choices) |-> normalizeChoiceToken(block.choices[i])]
      choiceLabels == IF \E i \in 1..Len(block.choiceLabels) :
                            block.choiceLabels[i] # NoStr /\ block.choiceLabels[i] # <<>>
                      THEN Present(block.choiceLabels) ELSE Absent
      type == guessQuestionType(choices, answerRaw)
      parsedIndices == IF answerRaw # <<>> THEN extractIndicesFromText(answerRaw, choices)
                       ELSE <<>>
  IN IF type = "short"
     THEN Question(id, "short", prompt, Absent, Absent, NoAnswer,
                   Present(IF answerRaw # <<>> THEN splitShortAnswerTokens(answerRaw) ELSE <<>>),
                   explanation)
     ELSE IF type = "ox"
     THEN Question(id, "ox", prompt, OxChoices, OxChoices, PlainOxAnswer(answerRaw),
                   Absent, explanation)
     ELSE IF type = "multi"
     THEN Question(id, "multi", prompt, Present(choices), choiceLabels,
                   ArrAnswer(parsedIndices), Absent, explanation)
     ELSE Question(id, "single", prompt, Present(choices), choiceLabels,
                   FirstAnswer(parsedIndices), Absent, explanation)

\* the warn issues the callback pushes for a block, in push order
\* (q is the question built for the block, answerRaw its answer text)
PlainBlockIssues(q, answerRaw) ==
     (IF q.prompt = <<>> THEN <<Issue("warn", "prompt-empty", q.id)>> ELSE <<>>)
     \o (IF answerRaw = <<>> THEN <<Issue("warn", "answer-empty", q.id)>> ELSE <<>>)
     \o (IF q.type \in {"single", "multi"} /\ q.choices.v = <<>>
         THEN <<Issue("warn", "no-choices", q.id)>> ELSE <<>>)
     \o (IF q.type = "ox" /\ q.answer.kind = "undefined"
         THEN <<Issue("warn", "check-ox-answer", q.id)>> ELSE <<>>)
     \o (IF q.type = "multi" /\ q.answer.v = <<>>
         THEN <<Issue("warn", "check-multi-answer", q.id)>> ELSE <<>>)
     \o (IF q.type = "single" /\ q.answer.kind = "undefined"
         THEN <<Issue("warn", "check-answer", q.id)>> ELSE <<>>)

PLAIN_TITLE == <<"plain-mode">>   \* the fixed title of a text exam

\* exam is null (<<>>) or a one-element list holding the exam
ProducerResult(examOrNull, issueList) == [exam |-> examOrNull, issues |-> issueList]

\* parsePlainText once the blocks and the answer key have been read
PlainTextResult(blocks, answerKey) ==
  IF blocks = <<>>
  THEN ProducerResult(<<>>, <<Issue("error", "no-questions-found", NoStr)>>)
  ELSE ProducerResult(
         <<[title |-> PLAIN_TITLE,
            questions |-> ensureUniqueIds(ArrayOf(
               [i \in 1..Len(blocks) |-> PlainBlockToQuestion(blocks[i], i - 1, answerKey)]))]>>,
         Flatten([i \in 1..Len(blocks) |->
                    PlainBlockIssues(PlainBlockToQuestion(blocks[i], i - 1, answerKey),
                                     BlockAnswerRaw(blocks[i], i - 1, answerKey))]))

parsePlainText(raw) ==
  LET parts == splitAnswerSection(raw) IN
  PlainTextResult(PlainBlocks(parts.questionText),
                  IF parts.answerText # <<>> /\ parts.answerText[1] # <<>>
                  THEN parseAnswerKey(parts.answerText[1]) ELSE <<>>)

(***************************************************************************)
(* JSON values and JSON.parse.  A value is a record tagged with its kind;  *)
(* an object is the list of its members in source order.  The grammar      *)
(* covers null, true, false, integers, strings without escapes, arrays and *)
(* objects; any other text is a SyntaxError.                               *)
(***************************************************************************)
JNull == [t |-> "null"]
JUndefined == [t |-> "undefined"]
JBool(b) == [t |-> "boolean", b |-> b]
JNum(n) == [t |-> "number", n |-> n]
JStr(s) == [t |-> "string", s |-> s]
JArr(a) == [t |-> "array", a |-> a]
JObj(o) == [t |-> "object", o |-> o]
Member(k, v) == [k |-> k, v |-> v]


ParseFail == [ok |-> FALSE, val |-> JNull, rest |-> <<>>]
ParseOk(v, rest) == [ok |-> TRUE, val |-> v, rest |-> rest]

\* the characters of a string literal up to its closing quote
JsonStringBody(s) ==
  IF \E i \in 1..Len(s) : s[i] = "\""
  THEN LET close == CHOOSE i \in 1..Len(s) : s[i] = "\"" /\ \A j \in 1..(i - 1) : s[j] # "\""
       IN IF \A j \in 1..(close - 1) : s[j] \notin {"\n", "\r", "\t", "\\"}
          THEN ParseOk(JStr(SubSeq(s, 1, close - 1)), Drop(s, close))
          ELSE ParseFail
  ELSE ParseFail

\* an integer literal: 0 or a run of digits without a leading zero
JsonNatural(s) ==
  LET k == LeadingDigits(s) IN
  IF k = 0 THEN ParseFail
  ELSE IF s[1] = "0" THEN ParseOk(JNum(0), Tail(s))
  ELSE ParseOk(JNum(DigitsToNat(SubSeq(s, 1, k))), Drop(s, k))

RECURSIVE JsonValue(_), JsonElements(_, _), JsonMembers(_, _)

JsonValue(text) ==
  LET s == TrimStart(text) IN
  IF s = <<>> THEN ParseFail
  ELSE IF Head(s) = "["
  THEN IF StartsWith(TrimStart(Tail(s)), <<"]">>)
       THEN ParseOk(JArr(<<>>), Tail(TrimStart(Tail(s))))
       ELSE JsonElements(Tail(s), <<>>)
  ELSE IF Head(s) = "{"
  THEN IF StartsWith(TrimStart(Tail(s)), <<"}">>)
       THEN ParseOk(JObj(<<>>), Tail(TrimStart(Tail(s))))
       ELSE JsonMembers(Tail(s), <<>>)
  ELSE IF StartsWith(s, Word.null) THEN ParseOk(JNull, Drop(s, 4))
  ELSE IF StartsWith(s, Word.true) THEN ParseOk(JBool(TRUE), Drop(s, 4))
  ELSE IF StartsWith(s, Word.false) THEN ParseOk(JBool(FALSE), Drop(s, 5))
  ELSE IF Head(s) = "\"" THEN JsonStringBody(Tail(s))
  ELSE IF Head(s) = "-"
  THEN LET n == JsonNatural(Tail(s)) IN
       IF n.ok THEN ParseOk(JNum(0 - n.val.n), n.rest) ELSE ParseFail
  ELSE IF IsDigit(Head(s)) THEN JsonNatural(s)
  ELSE ParseFail

JsonElements(text, acc) ==
  LET v == JsonValue(text)
      r == TrimStart(v.rest)
  IN IF ~v.ok \/ r = <<>> THEN ParseFail
     ELSE IF Head(r) = "," THEN JsonElements(Tail(r), Append(acc, v.val))
     ELSE IF Head(r) = "]" THEN ParseOk(JArr(Append(acc, v.val)), Tail(r))
     ELSE ParseFail

JsonMembers(text, acc) ==
  LET s == TrimStart(text)
      key == IF StartsWith(s, <<"\"">>) THEN JsonStringBody(Tail(s)) ELSE ParseFail
      colon == TrimStart(key.rest)
      v == IF key.ok /\ StartsWith(colon, <<":">>) THEN JsonValue(Tail(colon)) ELSE ParseFail
      r == TrimStart(v.rest)
  IN IF ~v.ok \/ r = <<>> THEN ParseFail
     ELSE IF Head(r) = "," THEN JsonMembers(Tail(r), Append(acc, Member(key.val.s, v.val)))
     ELSE IF Head(r) = "}" THEN ParseOk(JObj(Append(acc, Member(key.val.s, v.val))), Tail(r))
     ELSE ParseFail

\* JSON.parse(text): the value as a one-element list, <<>> when it throws
JsonParse(text) ==
  LET v == JsonValue(text) IN
  IF v.ok /\ TrimStart(v.rest) = <<>> THEN <<v.val>> ELSE <<>>

\* String(n) for an integer
IntToString(n) == IF n < 0 THEN <<"-">> \o NatToString(0 - n) ELSE NatToString(n)

\* String(value) of a parsed value
RECURSIVE JsString(_)
JsString(v) ==
  IF v.t = "string" THEN v.s
  ELSE IF v.t = "number" THEN IntToString(v.n)
  ELSE IF v.t = "boolean" THEN (IF v.b THEN Word.true ELSE Word.false)
  ELSE IF v.t = "null" THEN Word.null
  ELSE IF v.t = "array"
  THEN Join([i \in 1..Len(v.a) |->
               IF v.a[i].t = "null" THEN <<>> ELSE JsString(v.a[i])], <<",">>)
  ELSE <<"[", "o", "b", "j", "e", "c", "t", " ", "O", "b", "j", "e", "c", "t", "]">>

\* item.key of a parsed object; an array has none of the keys the normalizer reads
JsonGet(item, key) ==
  IF item.t = "object" /\ \E i \in 1..Len(item.o) : item.o[i].k = key
  THEN item.o[CHOOSE i \in 1..Len(item.o) :
         item.o[i].k = key /\ \A j \in (i + 1)..Len(item.o) : item.o[j].k # key].v
  ELSE JUndefined

\* Boolean(value)
Truthy(v) ==
  /\ v.t \notin {"null", "undefined"}
  /\ v.t = "boolean" => v.b
  /\ v.t = "number" => v.n # 0
  /\ v.t = "string" => v.s # <<>>

\* a ?? b
Coalesce(a, b) == IF a.t \in {"null", "undefined"} THEN b ELSE a

Key ==
  [id |-> <<"i", "d">>,
   type |-> <<"t", "y", "p", "e">>,
   prompt |-> <<"p", "r", "o", "m", "p", "t">>,
   choices |-> <<"c", "h", "o", "i", "c", "e", "s">>,
   choiceLabels |-> <<"c", "h", "o", "i", "c", "e", "L", "a", "b", "e", "l", "s">>,
   answer |-> <<"a", "n", "s", "w", "e", "r">>,
   answerText |-> <<"a", "n", "s", "w", "e", "r", "T", "e", "x", "t">>,
   explanation |-> <<"e", "x", "p", "l", "a", "n", "a", "t", "i", "o", "n">>,
   title |-> <<"t", "i", "t", "l", "e">>,
   questions |-> <<"q", "u", "e", "s", "t", "i", "o", "n", "s">>,
   toString |-> <<"t", "o", "S", "t", "r", "i", "n", "g">>]

\* String(value) throws a TypeError for a parsed object that has a member
\* named toString (the member is not callable and Object.prototype.valueOf
\* returns the object itself), and for a list that holds such an object
RECURSIVE StringThrows(_)
StringThrows(v) ==
  IF v.t = "object" THEN \E i \in 1..Len(v.o) : v.o[i].k = Key.toString
  ELSE IF v.t = "array" THEN \E i \in 1..Len(v.a) : StringThrows(v.a[i])
  ELSE FALSE

(***************************************************************************)
(* parser.ts: the JSON normalizer                                          *)
(***************************************************************************)
TypeWord ==
  [single |-> <<"s", "i", "n", "g", "l", "e">>,
   multi |-> <<"m", "u", "l", "t", "i">>,
   short |-> <<"s", "h", "o", "r", "t">>,
   ox |-> <<"o", "x">>,
   truefalse |-> <<"t", "r", "u", "e", "f", "a", "l", "s", "e">>,
   tf |-> <<"t", "f">>]

\* the QuestionType named by an accepted lower-case type word
TypeOfWord(word) ==
  IF word = TypeWord.single THEN "single"
  ELSE IF word = TypeWord.multi THEN "multi"
  ELSE IF word = TypeWord.short THEN "short"
  ELSE "ox"

\* a slip: only a string counts as a short answer given
normalizeQuestionTypeStringsOnly(rawType, item) ==
  LET known == /\ rawType.t = "string"
               /\ ToLowerCase(rawType.s) \in
                    {TypeWord.single, TypeWord.multi, TypeWord.short, TypeWord.ox, TypeWord.truefalse, TypeWord.tf}
      hasChoices == JsonGet(item, Key.choices).t = "array" /\ JsonGet(item, Key.choices).a # <<>>
      hasShort == JsonGet(item, Key.answerText).t = "string" \/ JsonGet(item, Key.answer).t = "string"
  IN IF known THEN [type |-> TypeOfWord(ToLowerCase(rawType.s)), guessed |-> FALSE]
     ELSE IF hasChoices THEN [type |-> "single", guessed |-> FALSE]
     ELSE IF hasShort THEN [type |-> "short", guessed |-> FALSE]
     ELSE [type |-> "short", guessed |-> TRUE]

\* the type, and whether the "type was guessed" issue is pushed
normalizeQuestionType(rawType, item) ==
  LET known == /\ rawType.t = "string"
               /\ ToLowerCase(rawType.s) \in
                    {TypeWord.single, TypeWord.multi, TypeWord.short, TypeWord.ox, TypeWord.truefalse, TypeWord.tf}
      hasChoices == JsonGet(item, Key.choices).t = "array" /\ JsonGet(item, Key.choices).a # <<>>
      hasShort == Truthy(JsonGet(item, Key.answerText)) \/ JsonGet(item, Key.answer).t = "string"
  IN IF known THEN [type |-> TypeOfWord(ToLowerCase(rawType.s)), guessed |-> FALSE]
     ELSE IF hasChoices THEN [type |-> "single", guessed |-> FALSE]
     ELSE IF hasShort THEN [type |-> "short", guessed |-> FALSE]
     ELSE [type |-> "short", guessed |-> TRUE]

normalizeShortAnswers(item) ==
  LET answerText == JsonGet(item, Key.answerText)
      answer == JsonGet(item, Key.answer)
  IN IF answerText.t = "array"
     THEN NonEmpty([i \in 1..Len(answerText.a) |-> Trim(JsString(answerText.a[i]))])
     ELSE IF answerText.t = "string" THEN splitShortAnswerTokens(answerText.s)
     ELSE IF answer.t = "string" THEN splitShortAnswerTokens(answer.s)
     ELSE <<>>

\* number | undefined, as Question.answer
normalizeOxAnswer(value) ==
  IF value.t = "number" THEN NumAnswer(IF value.n = 0 THEN 0 ELSE 1)
  ELSE IF value.t = "string"
  THEN IF parseOxAnswer(value.s) # <<>> THEN NumAnswer(parseOxAnswer(value.s)[1])
       ELSE FirstAnswer(extractIndicesFromText(value.s, <<<<"O">>, <<"X">>>>))
  ELSE NoAnswer

RECURSIVE normalizeChoiceAnswer(_, _)
normalizeChoiceAnswer(value, choices) ==
  IF value.t = "array"
  THEN SelectSeq(Dedupe(Flatten([i \in 1..Len(value.a) |->
                                   normalizeChoiceAnswer(value.a[i], choices)])),
                 LAMBDA idx : idx >= 0)
  ELSE IF value.t = "number" THEN <<value.n>>
  ELSE IF value.t = "string" THEN extractIndicesFromText(value.s, choices)
  ELSE <<>>

\* "!raw || typeof raw !== 'object'"
IsMalformedEntry(raw) == raw.t \notin {"object", "array"}

JsonQuestionId(item, index) ==
  IF JsonGet(item, Key.id).t = "string" /\ Trim(JsonGet(item, Key.id).s) # <<>>
  THEN Trim(JsonGet(item, Key.id).s)
  ELSE FallbackId(index + 1)

JsonChoices(item) ==
  LET choices == JsonGet(item, Key.choices) IN
  IF choices.t = "array" THEN [i \in 1..Len(choices.a) |-> JsString(choices.a[i])] ELSE <<>>

\* a slip: the labels are kept whatever their number
JsonChoiceLabelsAnyLength(item) ==
  LET labels == JsonGet(item, Key.choiceLabels) IN
  IF labels.t = "array"
  THEN Present([i \in 1..Len(labels.a) |-> Trim(JsString(labels.a[i]))])
  ELSE Absent

\* choiceLabels: kept only when there are as many labels as choices
JsonChoiceLabels(item) ==
  LET labels == JsonGet(item, Key.choiceLabels) IN
  IF labels.t = "array" /\ Len(labels.a) = Len(JsonChoices(item))
  THEN Present([i \in 1..Len(labels.a) |-> Trim(JsString(labels.a[i]))])
  ELSE Absent

OptionalString(v) == IF v.t = "string" THEN v.s ELSE NoStr

\* the question normalizeJsonQuestion returns
JsonQuestion(raw, index) ==
  LET id == JsonQuestionId(raw, index)
      prompt == IF JsonGet(raw, Key.prompt).t = "string" THEN JsonGet(raw, Key.prompt).s ELSE <<>>
      type == normalizeQuestionType(JsonGet(raw, Key.type), raw).type
      explanation == OptionalString(JsonGet(raw, Key.explanation))
      given == Coalesce(JsonGet(raw, Key.answer), JsonGet(raw, Key.answerText))
      parsedIndices == normalizeChoiceAnswer(given, JsonChoices(raw))
  IN IF IsMalformedEntry(raw)
     THEN Question(FallbackId(index + 1), "short", <<>>, Absent, Absent, NoAnswer,
                   Present(<<>>), NoStr)
     ELSE IF type = "short"
     THEN Question(id, "short", prompt, Absent, Absent, NoAnswer,
                   Present(normalizeShortAnswers(raw)), explanation)
     ELSE IF type = "ox"
     THEN Question(id, "ox", prompt, OxChoices, OxChoices, normalizeOxAnswer(given),
                   Absent, explanation)
     ELSE IF type = "multi"
     THEN Question(id, "multi", prompt, Present(JsonChoices(raw)), JsonChoiceLabels(raw),
                   ArrAnswer(parsedIndices), Absent, explanation)
     ELSE Question(id, "single", prompt, Present(JsonChoices(raw)), JsonChoiceLabels(raw),
                   FirstAnswer(parsedIndices), Absent, explanation)

\* normalizeJsonQuestion throws when one of its String(...) calls does
JsonQuestionThrows(raw) ==
  /\ ~IsMalformedEntry(raw)
  /\ \/ /\ JsonGet(raw, Key.choices).t = "array"
        /\ \E i \in 1..Len(JsonGet(raw, Key.choices).a) :
             StringThrows(JsonGet(raw, Key.choices).a[i])
     \/ /\ JsonGet(raw, Key.choiceLabels).t = "array"
        /\ \E i \in 1..Len(JsonGet(raw, Key.choiceLabels).a) :
             StringThrows(JsonGet(raw, Key.choiceLabels).a[i])
     \/ /\ normalizeQuestionType(JsonGet(raw, Key.type), raw).type = "short"
        /\ JsonGet(raw, Key.answerText).t = "array"
        /\ \E i \in 1..Len(JsonGet(raw, Key.answerText).a) :
             StringThrows(JsonGet(raw, Key.answerText).a[i])

\* the warn issues normalizeJsonQuestion pushes, in push order
\* (q is the question returned for the entry)
JsonQuestionIssues(raw, index, q) ==
  LET typed == normalizeQuestionType(JsonGet(raw, Key.type), raw)
      given == Coalesce(JsonGet(raw, Key.answer), JsonGet(raw, Key.answerText))
  IN IF IsMalformedEntry(raw)
     THEN <<Issue("warn", "bad-question-shape", FallbackId(index + 1))>>
     ELSE (IF typed.guessed THEN <<Issue("warn", "type-guessed", q.id)>> ELSE <<>>)
          \o (IF typed.type \in {"single", "multi"} /\ JsonChoices(raw) = <<>>
              THEN <<Issue("warn", "no-choices", q.id)>> ELSE <<>>)
          \o (IF typed.type = "short"
              THEN (IF q.answerText.v = <<>> THEN <<Issue("warn", "answer-empty", q.id)>> ELSE <<>>)
              ELSE IF typed.type = "ox"
              THEN (IF q.answer.kind = "undefined"
                    THEN <<Issue("warn", "check-ox-answer", q.id)>> ELSE <<>>)
              ELSE (IF normalizeChoiceAnswer(given, JsonChoices(raw)) = <<>>
                    THEN <<Issue("warn", "check-answer", q.id)>> ELSE <<>>))

\* rawQuestions of normalizeJsonInput
RawQuestions(parsed) ==
  IF parsed.t = "array" THEN parsed.a
  ELSE IF parsed.t = "object" /\ JsonGet(parsed, Key.questions).t = "array"
       THEN JsonGet(parsed, Key.questions).a
       ELSE <<>>

JsonTitle(parsed) ==
  IF parsed.t = "object" /\ JsonGet(parsed, Key.title).t = "string"
  THEN JsonGet(parsed, Key.title).s
  ELSE DEFAULT_TITLE

JsonExam(parsed) ==
  [title |-> JsonTitle(parsed),
   questions |-> ensureUniqueIds(ArrayOf(
      [i \in 1..Len(RawQuestions(parsed)) |-> JsonQuestion(RawQuestions(parsed)[i], i - 1)]))]

JsonIssues(parsed) ==
  Flatten([i \in 1..Len(RawQuestions(parsed)) |->
             JsonQuestionIssues(RawQuestions(parsed)[i], i - 1,
                                JsonQuestion(RawQuestions(parsed)[i], i - 1))])

\* normalizeJsonInput throws when the call for one of the entries does
normalizeJsonInputThrows(parsed) ==
  \E i \in 1..Len(RawQuestions(parsed)) : JsonQuestionThrows(RawQuestions(parsed)[i])

\* a slip: the error is pushed but the function goes on to build the exam
normalizeJsonInputNoEarlyReturn(parsed) ==
  IF RawQuestions(parsed) = <<>>
  THEN ProducerResult(<<JsonExam(parsed)>>, <<Issue("error", "no-question-data", NoStr)>>)
  ELSE ProducerResult(<<JsonExam(parsed)>>, JsonIssues(parsed))

normalizeJsonInput(parsed) ==
  IF RawQuestions(parsed) = <<>>
  THEN ProducerResult(<<>>, <<Issue("error", "no-question-data", NoStr)>>)
  ELSE ProducerResult(<<JsonExam(parsed)>>, JsonIssues(parsed))

(***************************************************************************)
(* parser.ts: parseInput                                                   *)
(***************************************************************************)
FILE_SUFFIX_JSON == <<".", "j", "s", "o", "n">>

ParseResult(examOrNull, editableOrNull, issueList) ==
  [exam |-> examOrNull, editable |-> editableOrNull, issues |-> issueList]

\* filename is undefined (<<>>) or a one-element list holding the name
looksJson(trimmed, filename) ==
  \/ filename # <<>> /\ EndsWith(ToLowerCase(filename[1]), FILE_SUFFIX_JSON)
  \/ StartsWith(trimmed, <<"{">>)
  \/ StartsWith(trimmed, <<"[">>)

\* "{ exam, editable: exam ? toEditableExam(exam) : null, issues }"
WithEditable(produced) ==
  ParseResult(produced.exam,
              IF produced.exam # <<>> THEN <<toEditableExam(produced.exam[1])>> ELSE <<>>,
              produced.issues)

\* the try block of parseInput and its catch: parsed is what JSON.parse
\* returned, or nothing when it threw
TryNormalize(parsed) ==
  IF parsed # <<>> /\ ~normalizeJsonInputThrows(parsed[1])
  THEN WithEditable(normalizeJsonInput(parsed[1]))
  ELSE ParseResult(<<>>, <<>>, <<Issue("error", "json-parse-failed", NoStr)>>)

parseInput(raw, filename) ==
  LET trimmed == Trim(raw) IN
  IF trimmed = <<>>
  THEN ParseResult(<<>>, <<>>, <<Issue("error", "input-empty", NoStr)>>)
  ELSE IF looksJson(trimmed, filename)
  THEN TryNormalize(JsonParse(trimmed))
  ELSE WithEditable(parsePlainText(trimmed))

(***************************************************************************)
(* Inputs of parseInput: texts made of up to MaxLines lines of a catalogue *)
(* of line shapes, and the JSON texts of lists of up to MaxJsonQuestions   *)
(* entries of a catalogue of question shapes, intact or damaged.           *)
(***************************************************************************)
\* JSON.stringify(value), the text a JSON file holds for the value
RECURSIVE JsonText(_)
JsonText(v) ==
  IF v.t = "null" THEN Word.null
  ELSE IF v.t = "boolean" THEN (IF v.b THEN Word.true ELSE Word.false)
  ELSE IF v.t = "number" THEN IntToString(v.n)
  ELSE IF v.t = "string" THEN <<"\"">> \o v.s \o <<"\"">>
  ELSE IF v.t = "array"
  THEN <<"[">> \o Join([i \in 1..Len(v.a) |-> JsonText(v.a[i])], <<",">>) \o <<"]">>
  ELSE <<"{">>
       \o Join([i \in 1..Len(v.o) |->
                  <<"\"">> \o v.o[i].k \o <<"\"", ":">> \o JsonText(v.o[i].v)], <<",">>)
       \o <<"}">>

StrList(strings) == JArr([i \in 1..Len(strings) |-> JStr(strings[i])])

JsonEntries ==
  { JObj(<<Member(Key.id, JStr(Q1Id)), Member(Key.type, JStr(TypeWord.single)),
           Member(Key.prompt, JStr(TextX)), Member(Key.choices, StrList(TwoChoices)),
           Member(Key.answer, JNum(1))>>),
    JObj(<<Member(Key.id, JStr(Q1Id)), Member(Key.type, JStr(TypeWord.multi)),
           Member(Key.choices, StrList(TwoChoices)),
           Member(Key.choiceLabels, StrList(<<<<"A">>, <<"B">>>>)),
           Member(Key.answer, JArr(<<JNum(0), JStr(<<"B">>), JNum(-1)>>))>>),
    JObj(<<Member(Key.type, JStr(TypeWord.short)), Member(Key.prompt, JStr(TextY)),
           Member(Key.answerText, StrList(<<<<"a">>, <<" ">>, <<"b">>>>)),
           Member(Key.explanation, JStr(TextX))>>),
    JObj(<<Member(Key.id, JStr(<<" ">>)), Member(Key.type, JStr(<<"O", "X">>)),
           Member(Key.prompt, JStr(TextX)), Member(Key.answer, JStr(<<"O">>))>>),
    JObj(<<Member(Key.type, JStr(TypeWord.tf)), Member(Key.prompt, JStr(TextX)),
           Member(Key.answer, JBool(TRUE))>>),
    JObj(<<Member(Key.prompt, JStr(TextY))>>),
    JNull,
    JStr(TextX),
    JArr(<<>>),
    JObj(<<Member(Key.id, JStr(Q1Id)), Member(Key.type, JStr(TypeWord.single)),
           Member(Key.prompt, JStr(TextX))>>),
    JObj(<<Member(Key.choices, JArr(<<JStr(TextX), JNum(2), JNull>>)),
           Member(Key.choiceLabels, StrList(<<<<" ">>, <<"c1">>, <<"B">>>>)),
           Member(Key.answer, JStr(<<"2">>))>>),
    JObj(<<Member(Key.id, JNum(7)), Member(Key.type, JStr(<<"e", "s", "s", "a", "y">>)),
           Member(Key.answer, JStr(<<"a", ",", " ", "b">>))>>),
    JObj(<<Member(Key.type, JStr(TypeWord.ox)), Member(Key.answer, JNull),
           Member(Key.answerText, JStr(<<"3">>))>>),
    JObj(<<Member(Key.prompt, JStr(TextX)),
           Member(Key.choices, JArr(<<JObj(<<Member(Key.toString, JNum(1))>>)>>))>>),
    JObj(<<Member(Key.prompt, JStr(TextX)), Member(Key.choices, StrList(<<TextX>>)),
           Member(Key.choiceLabels, StrList(<<<<"A">>, <<"B">>>>)),
           Member(Key.answer, JNum(0))>>),
    JObj(<<Member(Key.prompt, JStr(TextX)), Member(Key.answerText, StrList(<<<<"a">>>>))>>),
    JObj(<<Member(Key.prompt, JStr(TextX)), Member(Key.answerText, JStr(<<>>))>>) }

MaxJsonQuestions == 2

\* what a JSON file can hold: a list of entries, an object with or without
\* a title around it, or something that holds no question list
JsonDocuments(maxQuestions) ==
  LET lists == {JArr(a) : a \in SeqsOf(JsonEntries, 0, maxQuestions)} IN
  lists
  \cup {JObj(<<Member(Key.title, JStr(TextX)), Member(Key.questions, l)>>) : l \in lists}
  \cup {JObj(<<Member(Key.questions, l), Member(Key.title, JNum(1))>>) :
          l \in {JArr(<<e>>) : e \in JsonEntries}}
  \cup {JObj(<<>>), JObj(<<Member(Key.questions, JStr(TextX))>>), JNull, JNum(12),
        JStr(TextX), JBool(FALSE)}

\* a text that is not JSON because of what an editor or a model added to it
DamagedTexts(text) ==
  { SubSeq(text, 1, Len(text) - 1),
    SubSeq(text, 1, Len(text) - 1) \o <<",">> \o <<text[Len(text)]>>,
    <<"tick", "tick", "tick">> \o text \o <<"tick", "tick", "tick">> }

JsonTexts(maxQuestions) ==
  {JsonText(d) : d \in JsonDocuments(maxQuestions)}
  \cup {<<" ", "\n">> \o JsonText(d) \o <<"\n">> : d \in {JArr(<<e>>) : e \in JsonEntries}}
  \cup UNION {DamagedTexts(JsonText(JArr(<<e>>))) : e \in JsonEntries}

\* the line shapes of a text exam
Line ==
  [numbered |-> <<"1", ".", " ", "ga">>,
   blank |-> <<" ">>,
   letterChoice |-> <<"A", ")", " ", "x">>,
   bulletChoice |-> <<"-", " ", "ga">>,
   answer |-> <<"jeong", "dap", ":", " ", "A">>,
   answerOx |-> <<"A", "n", "s", "w", "e", "r", " ", "-", " ", "O">>,
   explanation |-> <<"hae", "seol", ")", "ga">>,
   free |-> <<"ga", " ", "x">>,
   keyHeader |-> <<"#", "#", " ", "jeong", "dap">>,
   keyHeaderBold |-> <<"*", "*", "jeong", "dap", "*", "*">>,
   keyEntry |-> <<"1", ")", " ", "x", " ", "(", "ga", ")">>,
   keyEntryOther |-> <<"1", ".", " ", "y", " ", "(", "x", ")">>,
   divider |-> <<"-", "-", "-">>,
   heading |-> <<"#", "#", " ", "x">>]

TextLines ==
  {Line.numbered, Line.blank, Line.letterChoice, Line.bulletChoice, Line.answer, Line.answerOx,
   Line.explanation, Line.free, Line.keyHeader, Line.keyHeaderBold, Line.keyEntry,
   Line.keyEntryOther,
   Line.divider, Line.heading}

PlainTexts(maxLines) == {Join(lines, <<"\n">>) : lines \in SeqsOf(TextLines, 0, maxLines)}

FILE_JSON == <<"a", ".", "J", "S", "O", "N">>
FILE_TXT == <<"a", ".", "t", "x", "t">>

\* every text without a file name, and the short ones under either file name
ParseInputs(maxQuestions, maxLines) ==
  {[raw |-> raw, filename |-> <<>>] : raw \in JsonTexts(maxQuestions) \cup PlainTexts(maxLines)}
  \cup {[raw |-> raw, filename |-> f] :
          raw \in {JsonText(d) : d \in JsonDocuments(1)}
                  \cup {Join(lines, <<"\n">>) : lines \in SeqsOf(TextLines, 0, 1)},
          f \in {<<FILE_JSON>>, <<FILE_TXT>>}}

(***************************************************************************)
(* SpecParse: one call of parseInput on any of the inputs.                 *)
(***************************************************************************)
InitParse ==
  /\ pc = "call" /\ arg \in ParseInputs(MaxJsonQuestions, MaxLines) /\ ret = "input"
  /\ exam = <<>> /\ editable = <<>> /\ issues = <<>> /\ prevExam = <<>> /\ app = <<>> /\ storage = <<>>

ParseInput ==
  /\ pc = "call"
  /\ \E result \in {parseInput(arg.raw, arg.filename)} :
     /\ exam' = result.exam
     /\ editable' = result.editable
     /\ issues' = result.issues
  /\ ret' = "parseInput"
  /\ pc' = "done"
  /\ UNCHANGED <<app, storage, arg, prevExam>>

NextParse == ParseInput

SpecParse == InitParse /\ [][NextParse]_vars

HasErrorIssue(issueList) == \E i \in 1..Len(issueList) : issueList[i].level = "error"

\* C1: parseInput returns exam and editable both null or both non-null, and
\* they are null exactly when the returned issues hold an error-level issue.
C1_NullExactlyOnError ==
  pc = "done" =>
    /\ (exam = <<>>) <=> (editable = <<>>)
    /\ (exam = <<>>) <=> HasErrorIssue(issues)

\* a JSON list of two entries gave an exam of two questions, its editable
\* mirror and warn issues only
C1_Witness ==
  /\ pc = "done" /\ StartsWith(Trim(arg.raw), <<"[">>)
  /\ exam # <<>> /\ editable # <<>>
  /\ Len(exam[1].questions) = 2
  /\ issues # <<>> /\ ~HasErrorIssue(issues)

\* parseInput was called on a text that JSON.parse accepts and that holds a
\* question list with at least one entry
IsJsonListCall ==
  /\ pc = "done"
  /\ looksJson(Trim(arg.raw), arg.filename)
  /\ JsonParse(Trim(arg.raw)) # <<>>
  /\ RawQuestions(JsonParse(Trim(arg.raw))[1]) # <<>>

\* the prompt an entry of the list carries
EntryPrompt(raw) ==
  IF JsonGet(raw, Key.prompt).t = "string" THEN JsonGet(raw, Key.prompt).s ELSE <<>>

\* C12: for every JSON input whose question list is not empty, the produced
\* exam has as many questions as the list has entries, in the same order,
\* whatever the shape of the entries, and the issues are warn-level only: no
\* error-level issue and no exception.
C12_AllEntriesKept ==
  IsJsonListCall =>
    LET entries == RawQuestions(JsonParse(Trim(arg.raw))[1]) IN
    /\ exam # <<>>
    /\ Len(exam[1].questions) = Len(entries)
    /\ \A i \in 1..Len(entries) : exam[1].questions[i].prompt = EntryPrompt(entries[i])
    /\ ~HasErrorIssue(issues)

\* parseInput handed a text that is not blank and does not look like JSON to
\* parsePlainText
IsPlainCall == pc = "done" /\ Trim(arg.raw) # <<>> /\ ~looksJson(Trim(arg.raw), arg.filename)

\* parseInput handed a parsed JSON value to normalizeJsonInput, which returned
IsJsonCall ==
  /\ pc = "done" /\ Trim(arg.raw) # <<>>
  /\ looksJson(Trim(arg.raw), arg.filename)
  /\ JsonParse(Trim(arg.raw)) # <<>>
  /\ ~normalizeJsonInputThrows(JsonParse(Trim(arg.raw))[1])

AllWarn(issueList) == \A i \in 1..Len(issueList) : issueList[i].level = "warn"

C14_BlankPromptHasIssue ==
  (pc = "done" /\ exam # <<>>) =>
    \A i \in 1..Len(exam[1].questions) :
      Trim(exam[1].questions[i].prompt) = <<>> =>
        \E j \in 1..Len(issues) :
          issues[j].level = "warn" /\ issues[j].questionId = exam[1].questions[i].id

\* parsePlainText returned an exam for a text that has an answer-key section
IsKeyedPlainCall ==
  /\ IsPlainCall /\ exam # <<>>
  /\ splitAnswerSection(Trim(arg.raw)).answerText # <<>>

\* the answer key that parsePlainText reads from the text
KeyOfText(raw) ==
  IF splitAnswerSection(raw).answerText # <<>> /\ splitAnswerSection(raw).answerText[1] # <<>>
  THEN parseAnswerKey(splitAnswerSection(raw).answerText[1]) ELSE <<>>

SameAnswer(a, b) == a.type = b.type /\ a.answer = b.answer /\ a.answerText = b.answerText

\* C15, for the block at position i of a text and the question q made of it;
\* alone is the question that the question region gives without any answer key
BlockFollowsInlineFirst(block, index, answerKey, q, alone) ==
  LET entry == BlockAnswerEntry(block, index, answerKey) IN
  /\ block.answerRaw # <<>> => SameAnswer(q, alone)
  /\ block.explanationLines # <<>> => q.explanation = alone.explanation
  /\ entry = <<>> => (SameAnswer(q, alone) /\ q.explanation = alone.explanation)
  /\ (block.answerRaw = <<>> /\ entry # <<>>) =>
       SameAnswer(q, PlainBlockToQuestion([block EXCEPT !.answerRaw = entry[1].answer],
                                          index, <<>>))
  /\ (block.explanationLines = <<>> /\ entry # <<>>
        /\ entry[1].explanation # NoStr /\ Trim(entry[1].explanation) # <<>>) =>
       q.explanation = Trim(entry[1].explanation)

\* C15: in plain-text parsing the inline answer of a block, when present, is
\* the raw answer used for its question (the question has the answer it has
\* without any answer key); the answer-key entry matched to the block supplies
\* the answer only when the block has no inline answer, and the explanation
\* only when the block has no inline explanation lines.
C15_InlineAnswerFirst ==
  IsKeyedPlainCall =>
    LET questionText == splitAnswerSection(Trim(arg.raw)).questionText
        blocks == PlainBlocks(questionText)
        alone == parsePlainText(questionText).exam[1].questions
    IN \A i \in 1..Len(blocks) :
         BlockFollowsInlineFirst(blocks[i], i - 1, KeyOfText(Trim(arg.raw)),
                                 exam[1].questions[i], alone[i])

\* a block with the inline answer "A" and a key entry "x" for it: the accepted
\* answer is "A"
C15_Witness ==
  /\ IsKeyedPlainCall
  /\ LET blocks == PlainBlocks(splitAnswerSection(Trim(arg.raw)).questionText)
         entry == BlockAnswerEntry(blocks[1], 0, KeyOfText(Trim(arg.raw)))
     IN /\ blocks[1].answerRaw = <<"A">>
        /\ entry # <<>> /\ entry[1].answer = <<"x">>
        /\ exam[1].questions[1].answerText = Present(<<<<"A">>>>)

(***************************************************************************)
(* SpecLines: the line loop of parsePlainText, one line per step.  arg     *)
(* holds the lines of the question region still to be read, ret the loop   *)
(* variables (blocks, current, lastWasBlank) and the lines read so far.    *)
(***************************************************************************)
LoopLines ==
  {Line.numbered, <<"2", ")", " ", "x">>, <<"3", ".">>, Line.blank, Line.letterChoice,
   Line.free, Line.answer, Line.divider, Line.heading,
   <<"*", "*", "x", "*", "*">>, <<"*", "*">>}

InitLines ==
  /\ pc = "loop" /\ arg \in SeqsOf(LoopLines, 0, MaxLoopLines)
  /\ ret = [loop |-> LoopStart, read |-> <<>>]
  /\ exam = <<>> /\ editable = <<>> /\ issues = <<>> /\ prevExam = <<>> /\ app = <<>> /\ storage = <<>>

\* one iteration of "for (const line of lines)"
ReadLine ==
  /\ pc = "loop" /\ arg # <<>>
  /\ ret' = [loop |-> LineStep(ret.loop, Head(arg)), read |-> Append(ret.read, Head(arg))]
  /\ arg' = Tail(arg)
  /\ UNCHANGED <<app, storage, pc, exam, editable, issues, prevExam>>

\* the commitCurrent() after the loop
CommitLast ==
  /\ pc = "loop" /\ arg = <<>>
  /\ ret' = [ret EXCEPT !.loop = commitCurrent(ret.loop)]
  /\ pc' = "done"
  /\ UNCHANGED <<app, storage, arg, exam, editable, issues, prevExam>>

NextLines == ReadLine \/ CommitLast

SpecLines == InitLines /\ [][NextLines]_vars

\* a line that, markdown stripped, begins with a number followed by ")" or "."
IsBareNumbered(line) ==
  LET cleaned == stripMarkdown(Trim(line))
      r == TrimStart(Drop(cleaned, LeadingDigits(cleaned)))
  IN LeadingDigits(cleaned) > 0 /\ r # <<>> /\ Head(r) \in {")", "."}

\* the text that follows the number and its mark
BareNumberedText(line) ==
  LET cleaned == stripMarkdown(Trim(line)) IN
  Trim(Tail(TrimStart(Drop(cleaned, LeadingDigits(cleaned)))))

PreviousLineBlank == ret.read = <<>> \/ Trim(ret.read[Len(ret.read)]) = <<>>

\* the step reads a bare numbered line while a block is open
ReadsBareNumberedInBlock ==
  /\ pc = "loop" /\ arg # <<>> /\ arg' = Tail(arg)
  /\ IsBareNumbered(Head(arg)) /\ ret.loop.current # <<>>

\* the open block is kept and the line has become its last choice
AddedAsChoice ==
  /\ ret'.loop.blocks = ret.loop.blocks
  /\ ret'.loop.current # <<>>
  /\ ret'.loop.current[1].id = ret.loop.current[1].id
  /\ ret'.loop.current[1].promptLines = ret.loop.current[1].promptLines
  /\ ret'.loop.current[1].choices =
       Append(ret.loop.current[1].choices, BareNumberedText(Head(arg)))

\* the open block is kept and the line went into its prompt or its last choice
AddedAsText ==
  /\ ret'.loop.blocks = ret.loop.blocks
  /\ ret'.loop.current # <<>>
  /\ ret'.loop.current[1].id = ret.loop.current[1].id
  /\ Len(ret'.loop.current[1].choices) = Len(ret.loop.current[1].choices)

InitProducers == InitParse \/ InitTranscode

NextProducers == NextParse \/ NextTranscode

SpecProducers == InitProducers /\ [][NextProducers]_vars

\* C17: in every question of every exam produced by the JSON normalizer, the
\* text parser or editableToExam, choiceLabels is either absent or a list
\* with exactly as many entries as choices.
C17_LabelsMatchChoices ==
  (exam # <<>> /\ ret \in {"parseInput", "editableToExam"}) =>
    \A i \in 1..Len(exam[1].questions) :
      exam[1].questions[i].choiceLabels.present =>
        /\ exam[1].questions[i].choices.present
        /\ Len(exam[1].questions[i].choiceLabels.v) = Len(exam[1].questions[i].choices.v)

\* a JSON list gave one question that kept its three labels for three choices
\* and one that lost its two labels for one choice
C17_Witness ==
  /\ pc = "done" /\ exam # <<>> /\ Len(exam[1].questions) = 2
  /\ exam[1].questions[1].type = "single"
  /\ exam[1].questions[1].choiceLabels.present
  /\ Len(exam[1].questions[1].choiceLabels.v) = 3
  /\ Len(exam[1].questions[1].choices.v) = 3
  /\ exam[1].questions[2].choices = Present(<<TextX>>)
  /\ ~exam[1].questions[2].choiceLabels.present

(***************************************************************************)
(* groq.ts: the recovery that parseJsonFromText applies to a model's reply *)
(***************************************************************************)
\* text.replace(/,\s*([}\]])/g, "$1"): a comma, and the white space after
\* it, is removed when the next other character is a closing bracket
removeTrailingCommas(text) ==
  LET Closes(i) == \E j \in (i + 1)..Len(text) :
                     /\ text[j] \in {"}", "]"}
                     /\ \A k \in (i + 1)..(j - 1) : IsWS(text[k])
      Trailing(i) == text[i] = "," /\ Closes(i)
      Removed(i) == \/ Trailing(i)
                    \/ /\ IsWS(text[i])
                       /\ \E c \in 1..(i - 1) :
                            Trailing(c) /\ \A k \in (c + 1)..i : IsWS(text[k])
      kept == SelectSeq([i \in 1..Len(text) |-> i], LAMBDA i : ~Removed(i))
  IN [k \in 1..Len(kept) |-> text[kept[k]]]

\* C18: for input that looks like JSON, the JSON parse error is reported only
\* after the recovery strategies have failed: input that the removal of
\* trailing commas (one of the strategies) turns into valid JSON with a
\* question list yields an exam.
C18_RepairedJsonYieldsExam ==
  (/\ pc = "done" /\ Trim(arg.raw) # <<>>
   /\ looksJson(Trim(arg.raw), arg.filename)
   /\ JsonParse(removeTrailingCommas(Trim(arg.raw))) # <<>>
   /\ RawQuestions(JsonParse(removeTrailingCommas(Trim(arg.raw)))[1]) # <<>>
   /\ ~normalizeJsonInputThrows(JsonParse(removeTrailingCommas(Trim(arg.raw)))[1]))
    => (exam # <<>> /\ ~HasErrorIssue(issues))

\* a line that, with its heading marker and its markdown emphasis stripped,
\* is one of the answer-key headings, and that holds no colon
IsKeyHeading(line) ==
  /\ \A j \in 1..Len(line) : line[j] # ":"
  /\ IsAnswerKeyHeader(stripMarkdown(StripHeadingMarker(Trim(line))))

\* C19: splitAnswerSection splits the input at the first line that, with
\* markdown emphasis and heading markers stripped, is an answer-key heading
\* and holds no colon: the lines before it are the question region, the
\* lines after it the answer-key region, the heading belongs to neither, and
\* the questions of the exam are the blocks of the question region alone.
C19_SplitsAtFirstKeyHeading ==
  IsPlainCall =>
    LET lines == SplitLines(Trim(arg.raw))
        parts == splitAnswerSection(Trim(arg.raw))
        headings == {i \in 1..Len(lines) : IsKeyHeading(lines[i])}
        first == NthOf(headings, 1)
    IN IF headings = {}
       THEN parts.answerText = <<>> /\ parts.questionText = Trim(arg.raw)
       ELSE /\ parts.questionText = Join(SubSeq(lines, 1, first - 1), <<"\n">>)
            /\ parts.answerText = <<Join(SubSeq(lines, first + 1, Len(lines)), <<"\n">>)>>
            /\ LET blocks == PlainBlocks(Join(SubSeq(lines, 1, first - 1), <<"\n">>)) IN
               /\ (exam = <<>>) <=> (blocks = <<>>)
               /\ exam # <<>> => Len(exam[1].questions) = Len(blocks)

\* the entries of the question list that parseInput normalized
EntriesOfCall == RawQuestions(JsonParse(Trim(arg.raw))[1])

\* the type of the entry is a string naming one of the six types, in any case
HasKnownType(raw) ==
  /\ JsonGet(raw, Key.type).t = "string"
  /\ ToLowerCase(JsonGet(raw, Key.type).s) \in
       {TypeWord.single, TypeWord.multi, TypeWord.short, TypeWord.ox, TypeWord.truefalse, TypeWord.tf}

HasSomeChoices(raw) ==
  JsonGet(raw, Key.choices).t = "array" /\ JsonGet(raw, Key.choices).a # <<>>

GuessedIssues == {j \in 1..Len(issues) : issues[j].message = "type-guessed"}

\* the types of the questions follow the rule of C20, and the "type was
\* guessed" issues are as many as the entries for which Unsupported holds
TypesFollowRule(Unsupported(_)) ==
  /\ \A i \in 1..Len(EntriesOfCall) :
       LET raw == EntriesOfCall[i]
           type == exam[1].questions[i].type
       IN ~IsMalformedEntry(raw) =>
            /\ (HasKnownType(raw)
                 /\ ToLowerCase(JsonGet(raw, Key.type).s) \in {TypeWord.truefalse, TypeWord.tf})
                  => type = "ox"
            /\ ~HasKnownType(raw) =>
                  type = (IF HasSomeChoices(raw) THEN "single" ELSE "short")
  /\ Cardinality(GuessedIssues) =
       Cardinality({i \in 1..Len(EntriesOfCall) :
                      /\ ~IsMalformedEntry(EntriesOfCall[i])
                      /\ ~HasKnownType(EntriesOfCall[i])
                      /\ ~HasSomeChoices(EntriesOfCall[i])
                      /\ Unsupported(EntriesOfCall[i])})
  /\ \A j \in GuessedIssues : issues[j].level = "warn"

\* C20 as stated: a JSON question whose type is absent or not one of the six
\* type words is typed single when its choices list is not empty and short
\* otherwise; the "type was guessed" warn issue is emitted exactly when the
\* choices list is empty or absent and neither answer nor answerText is a
\* string; truefalse and tf become ox.
C20_TypeInference ==
  (IsJsonCall /\ exam # <<>>) =>
    TypesFollowRule(LAMBDA raw : /\ JsonGet(raw, Key.answer).t # "string"
                                 /\ JsonGet(raw, Key.answerText).t # "string")

\* C20 amended: the same typing; the "type was guessed" warn issue is emitted
\* exactly when the type is absent or unrecognized, the choices list is
\* empty or absent, answer is not a string and answerText is absent or falsy
\* (null, "", 0, false): an answerText list counts as a short answer given,
\* an empty answerText string does not.
C20_TypeInferenceTruthyAnswerText ==
  (IsJsonCall /\ exam # <<>>) =>
    TypesFollowRule(LAMBDA raw : /\ JsonGet(raw, Key.answer).t # "string"
                                 /\ ~Truthy(JsonGet(raw, Key.answerText)))

\* an entry without type and with the answerText list ["a"] became a short
\* question without any issue
C20_Witness ==
  /\ IsJsonCall /\ exam # <<>> /\ Len(EntriesOfCall) = 1
  /\ JsonGet(EntriesOfCall[1], Key.type).t = "undefined"
  /\ JsonGet(EntriesOfCall[1], Key.answerText).t = "array"
  /\ exam[1].questions[1].type = "short"
  /\ exam[1].questions[1].answerText = Present(<<<<"a">>>>)
  /\ issues = <<>>

(***************************************************************************)
(* SpecGuess: one call of guessQuestionType on a list of choices and a raw *)
(* answer.                                                                 *)
(***************************************************************************)
GuessAlphabet == {"1", "2", ";", ",", " ", "O", "b"}
GuessChoices == {<<"O">>, <<"b">>, <<"ga">>}

InitGuess ==
  /\ pc = "call" /\ ret = "input"
  /\ exam = <<>> /\ editable = <<>> /\ issues = <<>> /\ prevExam = <<>> /\ app = <<>> /\ storage = <<>>
  /\ arg \in [choices : SeqsOf(GuessChoices, 0, MaxChoices),
              answerRaw : SeqsOf(GuessAlphabet, 0, MaxRawLen)]

GuessQuestionType ==
  /\ pc = "call"
  /\ ret' = guessQuestionType(arg.choices, arg.answerRaw)
  /\ pc' = "done"
  /\ UNCHANGED <<app, storage, arg, exam, editable, issues, prevExam>>

NextGuess == GuessQuestionType

SpecGuess == InitGuess /\ [][NextGuess]_vars

\* the characters the tokenizer splits an answer on, other than whitespace
SplitDelims == {",", "/", "|", ";"}

HasDelimiterOrWhitespace(str) ==
  \E i \in 1..Len(str) : str[i] \in SplitDelims \/ IsWS(str[i])

\* C21: guessQuestionType returns ox whenever the answer is a recognized O/X
\* word, even with choices; otherwise, with choices, multi exactly when the
\* answer contains a delimiter or whitespace and tokenizes to more than one
\* index, and single in every other case; without choices, short.
C21_GuessRule ==
  pc = "done" =>
    ret = (IF parseOxAnswer(arg.answerRaw) # <<>> THEN "ox"
           ELSE IF arg.choices # <<>>
           THEN IF /\ HasDelimiterOrWhitespace(arg.answerRaw)
                   /\ Len(extractIndicesFromText(arg.answerRaw, arg.choices)) > 1
                THEN "multi" ELSE "single"
           ELSE "short")

\* the exact choice-text match of C22: the first choice whose text is the
\* same up to case and spacing, as a list of at most one index
ClaimedChoiceMatch(text, choices) ==
  IF \E j \in 1..Len(choices) : SameChoiceText(choices[j], text)
  THEN <<(CHOOSE j \in 1..Len(choices) :
            /\ SameChoiceText(choices[j], text)
            /\ \A k \in 1..(j - 1) : ~SameChoiceText(choices[k], text)) - 1>>
  ELSE <<>>

\* the rule of C22 for one token: the first that applies of circled numeral,
\* positive number (the token's first run of digits, 1-based), single Latin
\* letter, choice text
ClaimedTokenResult(nt, choices) ==
  IF Len(nt) = 1 /\ IsCircled(nt[1]) THEN <<CircledIndex(nt[1])>>
  ELSE IF TokenPositiveNumber(nt) THEN <<DigitsToNat(FirstDigitRun(nt)) - 1>>
  ELSE IF Len(nt) = 1 /\ IsLetter(nt[1]) THEN <<LetterIndex(nt[1])>>
  ELSE ClaimedChoiceMatch(nt, choices)

ClaimedResults(tokens, choices) ==
  Flatten([t \in 1..Len(tokens) |-> ClaimedTokenResult(StripTokenTail(tokens[t]), choices)])

\* C22: extractIndicesFromText resolves each token by the first applicable
\* rule in the order circled numeral, positive number, single Latin letter,
\* choice-text match; it tries the whole cleaned string as one choice match
\* only when no token produced an index; the returned list is the per-token
\* results with duplicates removed and holds no negative value.
C22_FirstApplicableRule ==
  pc = "done" =>
    /\ ret = (IF ClaimedResults(AnswerTokens(CleanAnswer(arg.raw)), arg.choices) # <<>>
              THEN Dedupe(ClaimedResults(AnswerTokens(CleanAnswer(arg.raw)), arg.choices))
              ELSE ClaimedChoiceMatch(CleanAnswer(arg.raw), arg.choices))
    /\ \A i \in 1..Len(ret) : ret[i] >= 0

(***************************************************************************)
(* SpecSplit: one call of splitShortAnswerTokens on a raw answer.          *)
(***************************************************************************)
SplitAlphabet == {"a", "b", " ", "|", ",", ";", "/"}

InitSplit ==
  /\ pc = "call" /\ ret = <<>>
  /\ exam = <<>> /\ editable = <<>> /\ issues = <<>> /\ prevExam = <<>> /\ app = <<>> /\ storage = <<>>
  /\ arg \in SeqsOf(SplitAlphabet, 0, MaxShortLen)

SplitShortAnswerTokens ==
  /\ pc = "call"
  /\ ret' = splitShortAnswerTokens(arg)
  /\ pc' = "done"
  /\ UNCHANGED <<app, storage, arg, exam, editable, issues, prevExam>>

NextSplit == SplitShortAnswerTokens

SpecSplit == InitSplit /\ [][NextSplit]_vars

\* the trimmed non-empty parts of a string split on | , ; /, in order
TrimmedParts(raw) == NonEmpty(MapTrim(SplitRuns(raw, ShortDelims)))

Elements(xs) == {xs[i] : i \in 1..Len(xs)}

\* C23: splitShortAnswerTokens returns a list without duplicates and without
\* empty strings that holds every trimmed non-empty part of the input split
\* on | , ; /; with more than one part the trimmed input is in the list too,
\* and with at most one part the list is exactly that part (or empty).
C23_PartsAndWhole ==
  pc = "done" =>
    /\ IsInjective(ret)
    /\ \A i \in 1..Len(ret) : ret[i] # <<>>
    /\ Elements(TrimmedParts(arg)) \subseteq Elements(ret)
    /\ Len(TrimmedParts(arg)) > 1 => Trim(arg) \in Elements(ret)
    /\ Len(TrimmedParts(arg)) <= 1 => ret = TrimmedParts(arg)

\* "a; b" gave the two trimmed parts and the whole answer
C23_Witness ==
  /\ pc = "done"
  /\ arg = <<"a", ";", " ", "b">>
  /\ ret = <<<<"a">>, <<"b">>, arg>>

\* a non-blank line that matches no answer or explanation marker, no
\* question-start pattern (numbered ones included), no choice pattern, and is
\* no divider or heading
IsFreeTextLine(line) ==
  /\ Trim(line) # <<>>
  /\ MarkerBody(stripMarkdown(Trim(line)), {Word.jeongdap, Word.answer}) = <<>>
  /\ MarkerBody(stripMarkdown(Trim(line)), {Word.haeseol, Word.explanation}) = <<>>
  /\ ~parseQuestionStart(stripMarkdown(Trim(line)), TRUE).matched
  /\ ~parseChoiceLine(Trim(line)).matched
  /\ ~parseChoiceLine(stripMarkdown(Trim(line))).matched
  /\ ~isSectionDivider(Trim(line))
  /\ ~isSectionHeading(Trim(line))

\* the step reads such a line
ReadsFreeTextLine ==
  pc = "loop" /\ arg # <<>> /\ arg' = Tail(arg) /\ IsFreeTextLine(Head(arg))

\* the blocks committed so far and the open one
BlockCount(loop) == Len(loop.blocks) + (IF loop.current = <<>> THEN 0 ELSE 1)

\* one block more, open, with the text of the line as its prompt
StartsOneBlock(before, after, text) ==
  /\ after.blocks = before.blocks
  /\ BlockCount(after) = BlockCount(before) + 1
  /\ Join(after.current[1].promptLines, <<"\n">>) = text
  /\ after.current[1].choices = <<>>

\* same blocks, same number of choices, the text at the end of the last choice
AppendedToLastChoice(before, after, text) ==
  /\ after.blocks = before.blocks /\ after.current # <<>>
  /\ Len(after.current[1].choices) = Len(before.current[1].choices)
  /\ \A i \in 1..Len(before.current[1].choices) :
       after.current[1].choices[i] =
         (IF i < Len(before.current[1].choices) THEN before.current[1].choices[i]
          ELSE Trim(before.current[1].choices[i] \o <<" ">> \o text))
  /\ after.current[1].promptLines = before.current[1].promptLines

\* same blocks, no choice, the text as one more prompt line
AddedAsPromptLine(before, after, text) ==
  /\ after.blocks = before.blocks /\ after.current # <<>>
  /\ after.current[1].choices = <<>>
  /\ after.current[1].promptLines = Append(before.current[1].promptLines, text)

\* C24: in the line loop a non-blank line that matches no marker,
\* question-start pattern, choice pattern, divider or heading starts exactly
\* one new block with the line as prompt when no block is open; when a block
\* is open the number of blocks and of choices stays the same: the line is
\* appended to the last choice if there is one, else added as a prompt line.
C24_FreeTextLine ==
  [][ReadsFreeTextLine =>
       IF ret.loop.current = <<>>
       THEN StartsOneBlock(ret.loop, ret'.loop, stripMarkdown(Trim(Head(arg))))
       ELSE IF ret.loop.current[1].choices # <<>>
       THEN AppendedToLastChoice(ret.loop, ret'.loop, stripMarkdown(Trim(Head(arg))))
       ELSE AddedAsPromptLine(ret.loop, ret'.loop, stripMarkdown(Trim(Head(arg))))]_vars

\* "1. ga", "A) x", "ga x" were read: the block has one choice, "x ga x"
C24_Witness ==
  /\ pc = "loop"
  /\ ret.read = <<Line.numbered, Line.letterChoice, Line.free>>
  /\ ret.loop.blocks = <<>> /\ ret.loop.current # <<>>
  /\ ret.loop.current[1].choices = <<<<"x", " ", "ga", " ", "x">>>>

\* C25: every ox question that the JSON normalizer, the text parser or
\* editableToExam produce has the answer 0, the answer 1, or no answer and
\* then a warn issue with its id; it never carries an index of 2 or more.
C25_OxAnswerIsZeroOrOne ==
  (exam # <<>> /\ ret \in {"parseInput", "editableToExam"}) =>
    \A i \in 1..Len(exam[1].questions) :
      exam[1].questions[i].type = "ox" =>
        \/ exam[1].questions[i].answer \in {NumAnswer(0), NumAnswer(1)}
        \/ /\ exam[1].questions[i].answer = NoAnswer
           /\ \E j \in 1..Len(issues) : issues[j].level = "warn"

\* every issue of a list carries the given id
AllNameId(issueList, id) ==
  \A k \in 1..Len(issueList) : issueList[k].questionId # NoStr => issueList[k].questionId = id

\* C26: every issue with a questionId that the JSON normalizer, the text
\* parser or editableToExam return names the id that the question it was
\* raised for has in the returned exam, also when that question was renamed
\* by ensureUniqueIds.
C26_IssueNamesReturnedId ==
  /\ (exam # <<>> /\ ret = "editableToExam") =>
       \A i \in 1..Len(editable[1].questions) :
         AllNameId(EditableQuestionIssues(editable[1].questions[i],
                                          EditableId(editable[1].questions[i], i - 1),
                                          EditableQuestionToQuestion(editable[1].questions[i], i - 1)),
                   exam[1].questions[i].id)
  /\ (IsJsonCall /\ exam # <<>>) =>
       \A i \in 1..Len(EntriesOfCall) :
         AllNameId(JsonQuestionIssues(EntriesOfCall[i], i - 1, JsonQuestion(EntriesOfCall[i], i - 1)),
                   exam[1].questions[i].id)
  /\ (IsPlainCall /\ exam # <<>>) =>
       \A i \in 1..Len(PlainBlocks(splitAnswerSection(Trim(arg.raw)).questionText)) :
         AllNameId(PlainBlockIssues(
                     PlainBlockToQuestion(PlainBlocks(splitAnswerSection(Trim(arg.raw)).questionText)[i],
                                          i - 1, KeyOfText(Trim(arg.raw))),
                     BlockAnswerRaw(PlainBlocks(splitAnswerSection(Trim(arg.raw)).questionText)[i],
                                    i - 1, KeyOfText(Trim(arg.raw)))),
                   exam[1].questions[i].id)

\* the question carries no correct answer of its own
HasNoKey(question) ==
  \/ question.type \in {"single", "ox"} /\ question.answer.kind = "undefined"
  \/ question.type = "multi" /\ question.answer.kind # "array"
  \/ question.type = "short" /\ (~question.answerText.present \/ question.answerText.v = <<>>)

\* C27: in every gradeExam result, correct implies answered; a question with
\* no entry in the answers map is unanswered and not correct; a question whose
\* own correct answer is absent is never marked correct, whatever the user
\* answered.
C27_CorrectNeedsAnswerAndKey ==
  pc = "done" =>
    \A i \in 1..Len(exam[1].questions) :
      /\ ret[1].results[i].correct => ret[1].results[i].answered
      /\ exam[1].questions[i].id \notin DOMAIN arg =>
           (~ret[1].results[i].answered /\ ~ret[1].results[i].correct)
      /\ HasNoKey(exam[1].questions[i]) => ~ret[1].results[i].correct

\* a single question without a correct answer was answered with a number and
\* counted as incorrect
C27_Witness ==
  /\ pc = "done"
  /\ Len(exam[1].questions) = 1 /\ HasNoKey(exam[1].questions[1])
  /\ exam[1].questions[1].type = "single"
  /\ ret[1].results[1].answered /\ ~ret[1].results[1].correct
  /\ ret[1].incorrect = 1

(***************************************************************************)
(* App.tsx and storage.ts: the App component and the stored state.         *)
(*                                                                         *)
(* app holds the useState cells the steps depend on, under their names; a  *)
(* nullable cell is <<>> or a one-element list, a Record<string, ...> is a *)
(* function on its keys.  inputError is the list of the messages it shows  *)
(* (joined by line breaks on screen), empty for "".  The file and text     *)
(* boxes are inputs of handleParse; parseIssues, showAnswersInEditor and    *)
(* filter only choose what is displayed and are left out, as are the title *)
(* box of the editor, which changes no question, and the export of the     *)
(* wrong-answer notes.  storage is the item under                          *)
(* STORAGE_KEY.  JSON.stringify and JSON.parse return the stored state as  *)
(* written, except that an undefined label inside choiceLabels comes back  *)
(* as null, which every reader (?? and !label) treats alike.               *)
(*                                                                         *)
(* A handler is an operator from the cells to the cells.  React runs a     *)
(* handler to its end, renders with the cells it set, and then runs the    *)
(* effects of that render; no other handler runs in between.  pc is        *)
(* "idle" when the screen shows the cells and "render" when a handler has  *)
(* returned and its render is due.  exam holds the value of the exam memo  *)
(* of the last render; the save effect computes the same                   *)
(* editableToExam(examData).exam again, and takes it from there.           *)
(***************************************************************************)
MaxAppQuestions == 2

MathMax(a, b) == IF a >= b THEN a ELSE b
MathMin(a, b) == IF a <= b THEN a ELSE b

EmptyRecord == <<>>          \* {}
NoError == <<>>              \* ""
CHECK_QUESTIONS == <<"check-question-data">>

InitialCells ==
  [step |-> "input", inputTab |-> "file", inputError |-> NoError,
   editableExam |-> <<>>, examData |-> <<>>, answers |-> EmptyRecord, flags |-> EmptyRecord,
   currentIndex |-> 0, theme |-> "light"]

createBlankQuestion(index) ==
  EditableQuestion(<<"Q">> \o NatToString(index + 1), "short", <<>>, <<>>, <<>>, <<>>)

createEmptyExam == [title |-> DEFAULT_TITLE, questions |-> <<createBlankQuestion(0)>>]

\* prev ?? createEmptyExam()
ensureEditableExam(prev) == IF prev = <<>> THEN <<createEmptyExam>> ELSE prev

\* { ...question, ...updates }
WithUpdates(question, updates) ==
  [f \in DOMAIN question |-> IF f \in DOMAIN updates THEN updates[f] ELSE question[f]]

updateQuestionAt(prev, index, updates) ==
  IF prev = <<>> THEN prev
  ELSE <<[prev[1] EXCEPT !.questions[index + 1] = WithUpdates(@, updates)]>>

\* nextQuestions.splice(index, 1)
removeQuestionAt(prev, index) ==
  IF prev = <<>> THEN prev
  ELSE <<[prev[1] EXCEPT !.questions =
            SubSeq(@, 1, index) \o SubSeq(@, index + 2, Len(@))]>>

addQuestion(prev) ==
  IF prev = <<>> THEN <<createEmptyExam>>
  ELSE <<[prev[1] EXCEPT !.questions = Append(@, createBlankQuestion(Len(@)))]>>

\* issues.map((issue) => issue.message)
MessagesOf(issueList) == [i \in 1..Len(issueList) |-> issueList[i].message]

\* storage.ts
StoredState(step, examValue, answers, flags, currentIndex, theme) ==
  [step |-> step, exam |-> examValue, answers |-> answers, flags |-> flags,
   currentIndex |-> currentIndex, theme |-> theme]

saveState(state) == <<state>>
clearStateLeavesItem(stored) == stored
clearState(stored) == <<>>

\* the effect that loads the stored state after the first render
LoadEffect(cells, stored) ==
  IF stored # <<>>
  THEN [cells EXCEPT !.examData = <<toEditableExam(stored[1].exam)>>,
                     !.answers = stored[1].answers,
                     !.flags = stored[1].flags,
                     !.currentIndex = stored[1].currentIndex,
                     !.step = stored[1].step,
                     !.theme = stored[1].theme]
  ELSE cells

\* the exam memo of a render
ExamMemo(cells) ==
  IF cells.examData = <<>> THEN <<>> ELSE <<editableToExam(cells.examData[1]).exam>>

\* the effect that saves the state after a render: what the item is then
SaveEffect(cells, memo, stored) ==
  IF cells.examData = <<>> \/ cells.step \notin {"exam", "result"}
  THEN stored
  ELSE saveState(StoredState(cells.step, memo[1], cells.answers, cells.flags,
                             cells.currentIndex, cells.theme))

\* exam?.questions.length ?? 0
examQuestionCount == IF exam = <<>> THEN 0 ELSE Len(exam[1].questions)

\* exam ? exam.questions[currentIndex] : null, when it is an element
HasCurrentQuestion == exam # <<>> /\ app.currentIndex + 1 \in 1..Len(exam[1].questions)

currentQuestion == exam[1].questions[app.currentIndex + 1]

ParseStart(cells) ==
  [cells EXCEPT !.inputError = NoError, !.examData = <<>>, !.answers = EmptyRecord,
                !.flags = EmptyRecord, !.currentIndex = 0]

ParseEnd(cells, result) ==
  IF result.exam = <<>> \/ result.editable = <<>>
  THEN [cells EXCEPT !.inputError = MessagesOf(result.issues)]
  ELSE [cells EXCEPT !.editableExam = result.editable, !.step = "preview"]

handleParse(cells, content, filename) ==
  ParseEnd(ParseStart(cells), parseInput(content, filename))

\* handleStartExam without the test of the question count
StartWithAnyCount(cells, produced) ==
  [cells EXCEPT !.examData = <<toEditableExam(produced.exam)>>,
                !.answers = EmptyRecord, !.flags = EmptyRecord, !.currentIndex = 0,
                !.inputError = NoError, !.step = "exam"]

\* handleStartExam without setCurrentIndex(0)
StartWithSameIndex(cells, produced) ==
  IF produced.exam.questions = <<>>
  THEN [cells EXCEPT !.inputError = CHECK_QUESTIONS]
  ELSE [cells EXCEPT !.examData = <<toEditableExam(produced.exam)>>,
                     !.answers = EmptyRecord, !.flags = EmptyRecord,
                     !.inputError = NoError, !.step = "exam"]

StartWith(cells, produced) ==
  IF produced.exam.questions = <<>>
  THEN [cells EXCEPT !.inputError = CHECK_QUESTIONS]
  ELSE [cells EXCEPT !.examData = <<toEditableExam(produced.exam)>>,
                     !.answers = EmptyRecord, !.flags = EmptyRecord, !.currentIndex = 0,
                     !.inputError = NoError, !.step = "exam"]

handleStartExam(cells) ==
  IF cells.editableExam = <<>> THEN cells
  ELSE StartWith(cells, editableToExam(cells.editableExam[1]))

handleReset(cells) ==
  [cells EXCEPT !.editableExam = <<>>, !.examData = <<>>, !.answers = EmptyRecord,
                !.flags = EmptyRecord, !.currentIndex = 0, !.step = "input",
                !.inputError = NoError]

\* { ...prev, [key]: value }
WithKey(record, key, value) ==
  [k \in DOMAIN record \cup {key} |-> IF k = key THEN value ELSE record[k]]

handleAnswerChange(cells, questionId, value) ==
  [cells EXCEPT !.answers = WithKey(@, questionId, value)]

\* !prev[questionId], where a missing key reads undefined
handleToggleFlag(cells, questionId) ==
  [cells EXCEPT !.flags = WithKey(@, questionId,
                                  ~(questionId \in DOMAIN @ /\ @[questionId]))]

\* the retake button of the result step
Retaken(cells) ==
  [cells EXCEPT !.answers = EmptyRecord, !.flags = EmptyRecord, !.currentIndex = 0,
                !.step = "exam"]

\* the button that takes a running exam back to the editor
EditedAgain(cells) ==
  [cells EXCEPT !.editableExam = cells.examData, !.step = "preview"]

(***************************************************************************)
(* SpecApp: the App from its first render with nothing stored, under every *)
(* sequence of clicks, edits and reloads.                                  *)
(***************************************************************************)
\* what the user has in the file box or the text box when importing
AppSources ==
  { [raw |-> JsonText(JArr(<<JObj(<<>>), JObj(<<>>)>>)), filename |-> <<>>],
    [raw |-> JsonText(JArr(<<>>)), filename |-> <<FILE_JSON>>],
    [raw |-> <<>>, filename |-> <<>>] }

\* what the user types into a field of the editor
AppUpdates == { [id |-> <<"Q", "2">>] }

\* what the user enters as the answer to a question
AppAnswers(question) ==
  IF question.type = "short" THEN {UserString(TextX)}
  ELSE IF question.type = "multi" THEN {UserArray(<<0>>)}
  ELSE {UserNumber(0)}

InitApp ==
  /\ pc = "idle" /\ exam = <<>> /\ editable = <<>> /\ issues = <<>> /\ prevExam = <<>>
  /\ arg = <<>> /\ ret = <<>>
  /\ app = InitialCells
  /\ storage = <<>>

\* a handler returns: the cells it set and the item it left, a render is due
Handled(cells, stored) ==
  /\ app' = cells
  /\ storage' = stored
  /\ pc' = "render"
  /\ UNCHANGED <<exam, editable, issues, prevExam, arg, ret>>

\* the render that is due, and the save effect that follows it
Render ==
  /\ pc = "render"
  /\ \E memo \in {ExamMemo(app)} :
       /\ exam' = memo
       /\ storage' = SaveEffect(app, memo, storage)
  /\ pc' = "idle"
  /\ UNCHANGED <<app, editable, issues, prevExam, arg, ret>>

Idle == pc = "idle"

EditorShown ==
  /\ app.editableExam # <<>>
  /\ \/ app.step = "input" /\ app.inputTab = "manual"
     \/ app.step = "preview"

ExamShown == app.step = "exam" /\ HasCurrentQuestion

ResultShown == app.step = "result" /\ exam # <<>>

SelectInputTab ==
  /\ Idle /\ app.step = "input"
  /\ \E tab \in {"file", "text"} :
     \E next \in {[app EXCEPT !.inputTab = tab]} : Handled(next, storage)

SelectManualTab ==
  /\ Idle /\ app.step = "input"
  /\ \E next \in {[app EXCEPT !.inputTab = "manual", !.inputError = NoError,
                                !.editableExam = ensureEditableExam(@)]} :
       Handled(next, storage)

NewManualExam ==
  /\ Idle /\ app.step = "input" /\ app.inputTab = "manual" /\ app.editableExam # <<>>
  /\ \E next \in {[app EXCEPT !.editableExam = <<createEmptyExam>>,
                                !.inputError = NoError]} :
       Handled(next, storage)

UpdateQuestionAt ==
  /\ Idle /\ EditorShown
  /\ \E index \in 0..(Len(app.editableExam[1].questions) - 1), updates \in AppUpdates :
     \E next \in {[app EXCEPT !.editableExam = updateQuestionAt(@, index, updates)]} :
       Handled(next, storage)

RemoveQuestionAt ==
  /\ Idle /\ EditorShown
  /\ \E index \in 0..(Len(app.editableExam[1].questions) - 1) :
     \E next \in {[app EXCEPT !.editableExam = removeQuestionAt(@, index)]} :
       Handled(next, storage)

AddQuestion ==
  /\ Idle /\ EditorShown
  /\ Len(app.editableExam[1].questions) < MaxAppQuestions
  /\ \E next \in {[app EXCEPT !.editableExam = addQuestion(@)]} : Handled(next, storage)

HandleParse ==
  /\ Idle /\ app.step = "input" /\ app.inputTab # "manual"
  /\ \E source \in AppSources :
       /\ app.inputTab = "text" => source.filename = <<>>
       /\ \E next \in {handleParse(app, source.raw, source.filename)} :
            Handled(next, storage)

HandleStartExam ==
  /\ Idle /\ EditorShown
  /\ \E next \in {handleStartExam(app)} : Handled(next, storage)

BackToInput ==
  /\ Idle /\ app.step = "preview" /\ app.editableExam # <<>>
  /\ \E next \in {[app EXCEPT !.step = "input"]} : Handled(next, storage)

JumpToQuestion ==
  /\ Idle /\ ExamShown
  /\ \E index \in 0..(examQuestionCount - 1) :
     \E next \in {[app EXCEPT !.currentIndex = index]} : Handled(next, storage)

PreviousQuestion ==
  /\ Idle /\ ExamShown /\ app.currentIndex # 0
  /\ \E next \in {[app EXCEPT !.currentIndex = MathMax(0, @ - 1)]} : Handled(next, storage)

NextQuestion ==
  /\ Idle /\ ExamShown /\ app.currentIndex # examQuestionCount - 1
  /\ \E next \in {[app EXCEPT !.currentIndex = MathMin(examQuestionCount - 1, @ + 1)]} :
       Handled(next, storage)

EditExam ==
  /\ Idle /\ ExamShown
  /\ \E next \in {EditedAgain(app)} : Handled(next, storage)

ClearAnswers ==
  /\ Idle /\ ExamShown
  /\ \E next \in {[app EXCEPT !.answers = EmptyRecord]} : Handled(next, storage)

GradeAll ==
  /\ Idle /\ ExamShown
  /\ \E next \in {[app EXCEPT !.step = "result"]} : Handled(next, storage)

HandleToggleFlag ==
  /\ Idle /\ ExamShown
  /\ \E next \in {handleToggleFlag(app, currentQuestion.id)} : Handled(next, storage)

HandleAnswerChange ==
  /\ Idle /\ ExamShown
  /\ \E value \in AppAnswers(currentQuestion) :
     \E next \in {handleAnswerChange(app, currentQuestion.id, value)} :
       Handled(next, storage)

ReturnToExam ==
  /\ Idle /\ ResultShown
  /\ \E next \in {[app EXCEPT !.step = "exam"]} : Handled(next, storage)

Retake ==
  /\ Idle /\ ResultShown
  /\ \E next \in {Retaken(app)} : Handled(next, storage)

HandleReset ==
  /\ Idle /\ exam # <<>>
  /\ \E next \in {handleReset(app)} : Handled(next, clearState(storage))

ToggleTheme ==
  /\ Idle
  /\ \E next \in {[app EXCEPT !.theme = IF @ = "light" THEN "dark" ELSE "light"]} :
       Handled(next, storage)

\* the page is loaded again: the first render and its load effect
Reload ==
  /\ Idle
  /\ \E next \in {LoadEffect(InitialCells, storage)} : Handled(next, storage)

NextApp ==
  \/ SelectInputTab \/ SelectManualTab \/ NewManualExam
  \/ UpdateQuestionAt \/ RemoveQuestionAt \/ AddQuestion
  \/ HandleParse \/ HandleStartExam \/ BackToInput
  \/ JumpToQuestion \/ PreviousQuestion \/ NextQuestion
  \/ EditExam \/ ClearAnswers \/ GradeAll \/ HandleToggleFlag \/ HandleAnswerChange
  \/ ReturnToExam \/ Retake \/ HandleReset \/ ToggleTheme \/ Reload
  \/ Render

SpecApp == InitApp /\ [][NextApp]_vars

(***************************************************************************)
(* C28: whenever step is exam or result, examData is non-null and holds at *)
(* least one question; and a start attempt on an editable exam with no     *)
(* question leaves step and examData as they were and sets the input       *)
(* error.                                                                  *)
(***************************************************************************)
RunningExamHasQuestions ==
  app.step \in {"exam", "result"} =>
    app.examData # <<>> /\ Len(app.examData[1].questions) >= 1

StartsWithoutQuestions ==
  /\ EditorShown
  /\ app.editableExam[1].questions = <<>>
  /\ HandleStartExam

C28_RunningExamHasQuestions ==
  /\ []RunningExamHasQuestions
  /\ [][StartsWithoutQuestions =>
          /\ app'.step = app.step
          /\ app'.examData = app.examData
          /\ app'.inputError = CHECK_QUESTIONS]_vars

\* an exam was started, taken back to the editor and emptied, and the start
\* of the emptied exam was refused
C28_Witness ==
  /\ Idle /\ app.step = "preview"
  /\ app.editableExam # <<>> /\ app.editableExam[1].questions = <<>>
  /\ app.examData # <<>> /\ Len(app.examData[1].questions) = 2
  /\ app.inputError = CHECK_QUESTIONS

(***************************************************************************)
(* C29: whenever step is exam, 0 <= currentIndex < the number of questions *)
(* of the running exam: of examData at any time, and of the exam memo that *)
(* currentQuestion reads once the render is done.                          *)
(***************************************************************************)
C29_CurrentIndexInRange ==
  app.step = "exam" =>
    /\ app.examData # <<>>
    /\ 0 <= app.currentIndex /\ app.currentIndex < Len(app.examData[1].questions)
    /\ Idle => app.currentIndex < examQuestionCount /\ HasCurrentQuestion

\* the second of two questions is in view
C29_Witness ==
  /\ Idle /\ app.step = "exam"
  /\ examQuestionCount = 2
  /\ app.currentIndex = 1

(***************************************************************************)
(* C30: the item is written only in a render whose step is exam or result  *)
(* and whose examData is set; handleReset leaves no item; while there is   *)
(* no item, only the render in which an exam starts to run creates one;    *)
(* and a reload that finds no item gives the first render again.           *)
(***************************************************************************)
Written == storage' # storage /\ storage' # <<>>

C30_StoredOnlyWhileRunning ==
  [][/\ Written => app'.step \in {"exam", "result"} /\ app'.examData # <<>>
     /\ HandleReset => storage' = <<>>
     /\ (storage = <<>> /\ storage' # <<>>) =>
          Render /\ exam = <<>> /\ exam' # <<>> /\ app.step = "exam"
     /\ (storage = <<>> /\ Reload) => app' = InitialCells /\ storage' = <<>>]_vars

\* the render after handleReset: only a reset leaves the manual tab without
\* an editable exam
C30_Witness ==
  /\ Idle
  /\ app.inputTab = "manual" /\ app.editableExam = <<>>
  /\ app.step = "input" /\ app.examData = <<>>
  /\ exam = <<>> /\ storage = <<>>

====
